---- MODULE Spec2Model ----
(***************************************************************************)
(* A model of the bitmap-fonts repository: the whole-font PCF decoder      *)
(* (pcf-parser/src/lib.rs), the on-demand decoder (pcf-parser/src/pcf.rs), *)
(* the include_pcf code generator (eg-pcf-macros/src/lib.rs) and the glyph *)
(* lookup of the renderer (eg-pcf/src/lib.rs).                             *)
(*                                                                         *)
(* Conventions.                                                            *)
(*  - The byte buffer is a record [len, data]: data holds the bytes that   *)
(*    differ from FillByte, every other position below len holds FillByte. *)
(*  - usize is taken to be 64 bits wide.  TLC's integers are 32 bits wide, *)
(*    so a usize value of USat or more is held as USat: such a value lies  *)
(*    beyond every buffer of the model, and only ever grows (UAdd, UMul).  *)
(*  - An option is a sequence: None is << >>, Some(x) is <<x>>.            *)
(*  - A char is its Unicode scalar value.                                  *)
(*  - build is the Rust build profile: an arithmetic overflow panics under *)
(*    "debug" and wraps under "release".                                   *)
(***************************************************************************)
EXTENDS Integers, Sequences, FiniteSets, TLC

VARIABLES
    bytes,          \* the input buffer (PcfFont.bytes)
    build,          \* "debug" | "release"
    pc,             \* the step PcfFont::new / include_pcf is at
    pos,            \* position of the Cursor lib.rs reads the header through
    tables,         \* PcfFont.tables: type -> Table
    accelerators,   \* PcfFont.accelerators
    encoding,       \* PcfFont.encoding
    bitmap,         \* PcfFont.bitmap
    bounding_box,   \* PcfFont.bounding_box
    metadata,       \* PcfFont.metadata
    indices,        \* load_glyphs: code point -> glyph index
    all_metrics,    \* load_glyphs: code point -> CompressedMetrics
    bitmap_offsets, \* load_glyphs: code point -> bitmap offset
    glyphs,         \* PcfFont.glyphs: code point -> Glyph
    err,            \* why decoding panicked ("" while it has not)
    hi,             \* ghost: one past the highest buffer position read so far
    wrapped,        \* ghost: an offset was computed by wrapped arithmetic
    filter,         \* include_pcf: the character ranges given to the macro
    font,           \* include_pcf: the eg_pcf::PcfFont it emits
    lookup,         \* get_glyph: the character asked for and what came back
    requests,       \* pcf.rs: the code-point lists load_glyphs was called with
    previous,       \* what an earlier PcfFont::new on the same buffer returned
    calls           \* calls made on a font that exists, with what they returned

decoder_vars == <<bytes, build, pc, pos, tables, accelerators, encoding, bitmap,
                  bounding_box, metadata, indices, all_metrics, bitmap_offsets,
                  glyphs, err, hi, wrapped>>

\* what PcfFont::new leaves alone once it has returned
decoder_fields == <<bytes, build, pos, tables, accelerators, encoding, bitmap,
                    bounding_box, metadata, indices, all_metrics, bitmap_offsets,
                    glyphs>>

emitted_vars == <<filter, font, lookup, requests, previous, calls>>

-----------------------------------------------------------------------------
(* Program constants: pcf-parser/src/lib.rs                                *)

PCF_PROPERTIES == 1
PCF_ACCELERATORS == 2
PCF_METRICS == 4
PCF_BITMAPS == 8
PCF_INK_METRICS == 16
PCF_BDF_ENCODINGS == 32
PCF_SWIDTHS == 64
PCF_GLYPH_NAMES == 128
PCF_BDF_ACCELERATORS == 256

PCF_DEFAULT_FORMAT == 0
PCF_INKBOUNDS == 512
PCF_ACCEL_W_INKBOUNDS == 256
PCF_COMPRESSED_METRICS == 256

PCF_GLYPH_PAD_MASK == 3
PCF_BYTE_MASK == 4
PCF_BIT_MASK == 8

\* "1fcp" read as a little-endian i32 (the comment above header())
PCF_MAGIC == 1885562369

U16_MAX == 65535

-----------------------------------------------------------------------------
(* Machine arithmetic                                                      *)

\* The saturation point of a modelled usize: 2^31 - 1.
USat == 1073741823 * 2 + 1

I32_MIN == (0 - USat) - 1

Min(a, b) == IF a < b THEN a ELSE b
Max(a, b) == IF a > b THEN a ELSE b

\* usize addition of a non-negative amount, saturating at USat.
UAdd(a, b) == IF a >= USat - b THEN USat ELSE a + b

\* usize multiplication by a small positive factor, saturating at USat.
UMul(k, a) == IF a >= (USat \div k) THEN USat ELSE k * a

\* The low 31 bits of an i32 in two's complement.
Low31(x) == IF x >= 0 THEN x ELSE (x + USat) + 1

RECURSIVE BitAndNat(_, _)
BitAndNat(a, b) ==
    IF a = 0 \/ b = 0 THEN 0
    ELSE (a % 2) * (b % 2) + 2 * BitAndNat(a \div 2, b \div 2)

\* x & mask on i32, for a mask without the sign bit.
BitAnd(x, mask) == BitAndNat(Low31(x), mask)

\* i16 arithmetic: the exact result, whether it fits, and what it wraps to.
FitsI16(x) == x >= -32768 /\ x <= 32767
WrapI16(x) == ((x + 32768) % 65536) - 32768

\* 4 * x on i32: fits, and the wrapped product.
Mul4FitsI32(x) == x >= -536870912 /\ x <= 536870911
Mul4WrapI32(x) ==
    LET r == x % 1073741824
    IN  IF r >= 536870912 THEN 4 * (r - 1073741824) ELSE 4 * r

-----------------------------------------------------------------------------
(* The byte buffer                                                         *)

FillByte == 16 * 16 - 1

Byte(i) == IF i \in DOMAIN bytes.data THEN bytes.data[i] ELSE FillByte

\* Whether the slice bytes[a .. a + n] exists (Rust panics otherwise).
CanRead(a, n) == a >= 0 /\ UAdd(a, n) <= bytes.len

SignedByte(b) == IF b >= 128 THEN b - 256 ELSE b

\* A position beyond the buffer, where nothing is ever read, is held as the
\* buffer's length (this keeps p + 3 within TLC's integers).
Clamp(p) == IF p > bytes.len THEN bytes.len ELSE p

\* byteorder::LittleEndian::read_i32 / BigEndian::read_i32, read_i16, read_u16, read_u32
LittleEndian_read_i32(p) ==
    LET q == Clamp(p)
    IN  Byte(q) + 256 * Byte(q + 1) + 65536 * Byte(q + 2)
        + 16777216 * SignedByte(Byte(q + 3))

BigEndian_read_i32(p) ==
    LET q == Clamp(p)
    IN  Byte(q + 3) + 256 * Byte(q + 2) + 65536 * Byte(q + 1)
        + 16777216 * SignedByte(Byte(q))

BigEndian_read_i16(p) ==
    LET q == Clamp(p) IN 256 * SignedByte(Byte(q)) + Byte(q + 1)

BigEndian_read_u16(p) ==
    LET q == Clamp(p) IN 256 * Byte(q) + Byte(q + 1)

\* A u32 of 2^31 or more converted to usize is held as USat.
BigEndian_read_u32(p) ==
    LET q == Clamp(p)
    IN  IF Byte(q) >= 128 THEN USat
        ELSE Byte(q + 3) + 256 * Byte(q + 2) + 65536 * Byte(q + 1)
             + 16777216 * Byte(q)

-----------------------------------------------------------------------------
(* Options and chars                                                       *)

None == << >>
Some(x) == <<x>>
IsSome(o) == Len(o) = 1
Unwrap(o) == o[1]

\* std::char::from_u32 on u32::try_from(code_point).ok()
char_from_u32(cp) ==
    IF cp < 0 \/ cp > 1114111 \/ (cp >= 55296 /\ cp <= 57343) THEN None ELSE Some(cp)

REPLACEMENT_CHARACTER == 65533
SPACE == 32

-----------------------------------------------------------------------------
(* Panics.  A step of the decoder is a sequence of reads and checks in     *)
(* program order: <<"read", start, n>> is the slice bytes[start..start+n], *)
(* which panics when it leaves the buffer, and <<"check", ok, why>> is an  *)
(* assert!, expect or unwrap, which panics with `why` when ok is false.    *)

\* One step: a read must lie inside the buffer, a check must hold.
Step(s, h) ==
    IF s[1] = "read"
    THEN IF CanRead(s[2], s[3])
         THEN [err |-> "", hi |-> Max(h, s[2] + s[3])]
         ELSE [err |-> "out_of_bounds", hi |-> h]
    ELSE IF s[2] THEN [err |-> "", hi |-> h] ELSE [err |-> s[3], hi |-> h]

\* Steps lo .. up one after the other, stopping at the first that fails.
RECURSIVE Walk(_, _, _, _)
Walk(steps, lo, up, h) ==
    IF lo > up THEN [err |-> "", hi |-> h]
    ELSE IF lo = up THEN Step(steps[lo], h)
    ELSE LET mid   == (lo + up) \div 2
             first == Walk(steps, lo, mid, h)
         IN  IF first.err # "" THEN first
             ELSE Walk(steps, mid + 1, up, first.hi)

Run(steps) == Walk(steps, 1, Len(steps), hi)

NoTable == [format |-> 0, size |-> 0, offset |-> 0]

\* self.tables.get(&type), with NoTable standing for None
TableOf(type) == IF type \in DOMAIN tables THEN tables[type] ELSE NoTable

\* x as usize; a negative i32 becomes a value above every buffer length
AsUsize(x) == IF x < 0 THEN USat ELSE x

\* table.offset as a cursor (pcf.rs keeps the i32 and casts it here)
TableOffset(type) == AsUsize(TableOf(type).offset)

-----------------------------------------------------------------------------
(* PcfFont::header, table_count, read_tables                               *)

\* header(): read_i32 at the cursor, which moves on by 4
header_steps == << <<"read", pos, 4>> >>

header_value == LittleEndian_read_i32(pos)

table_count_value == LittleEndian_read_i32(pos)

\* RecordAt that takes the records to start at the top of the buffer
RecordAt_no_header(i) ==
    LET cur == 16 * i
    IN  [type   |-> LittleEndian_read_i32(cur),
         format |-> LittleEndian_read_i32(cur + 4),
         size   |-> LittleEndian_read_i32(cur + 8),
         offset |-> LittleEndian_read_i32(cur + 12)]

\* The 16-byte record read_tables reads in its i-th round (i from 0).
RecordAt(i) ==
    LET cur == pos + 4 + 16 * i
    IN  [type   |-> LittleEndian_read_i32(cur),
         format |-> LittleEndian_read_i32(cur + 4),
         size   |-> LittleEndian_read_i32(cur + 8),
         offset |-> LittleEndian_read_i32(cur + 12)]

RecordSteps(i) ==
    LET cur == pos + 4 + 16 * i
        r   == RecordAt(i)
    IN  << <<"read", cur, 4>>,
           <<"check", r.type >= 0, "unwrap">>,
           <<"read", cur + 4, 12>>,
           <<"check", r.offset >= 0, "unwrap">> >>

\* The rounds that can matter: every round up to the first one that does
\* not fit into the buffer.
RoundsToWalk ==
    LET n == table_count_value
        k == IF bytes.len >= pos + 4 THEN (bytes.len - (pos + 4)) \div 16 ELSE 0
    IN  Max(0, Min(n, k + 1))

RECURSIVE AllRecordSteps(_, _)
AllRecordSteps(i, n) ==
    IF i >= n THEN << >> ELSE RecordSteps(i) \o AllRecordSteps(i + 1, n)

read_tables_steps ==
    << <<"read", pos, 4>> >> \o
    (IF CanRead(pos, 4) THEN AllRecordSteps(0, RoundsToWalk) ELSE << >>)

HashMapInsert(m, k, v) == (k :> v) @@ m

RECURSIVE read_tables_fold(_, _, _)
read_tables_fold(i, n, tabs) ==
    IF i >= n THEN tabs
    ELSE LET r == RecordAt(i)
         IN  read_tables_fold(i + 1, n,
                 HashMapInsert(tabs, r.type,
                     [format |-> r.format, size |-> r.size, offset |-> r.offset]))

read_tables == read_tables_fold(0, table_count_value, << >>)

-----------------------------------------------------------------------------
(* read_accelerators, read_uncompressed_metrics                            *)

read_uncompressed_metrics(cursor) ==
    [left_side_bearing    |-> BigEndian_read_i16(cursor),
     right_side_bearing   |-> BigEndian_read_i16(UAdd(cursor, 2)),
     character_width      |-> BigEndian_read_i16(UAdd(cursor, 4)),
     character_ascent     |-> BigEndian_read_i16(UAdd(cursor, 6)),
     character_descent    |-> BigEndian_read_i16(UAdd(cursor, 8)),
     character_attributes |-> BigEndian_read_u16(UAdd(cursor, 10))]

DefaultMetrics ==
    [left_side_bearing |-> 0, right_side_bearing |-> 0, character_width |-> 0,
     character_ascent |-> 0, character_descent |-> 0, character_attributes |-> 0]

\* AcceleratorTableType with the two lookups in the other order
AcceleratorTableType_plain_first ==
    IF PCF_ACCELERATORS \in DOMAIN tables THEN PCF_ACCELERATORS
    ELSE PCF_BDF_ACCELERATORS

\* .get(&PCF_BDF_ACCELERATORS).or_else(|| .get(&PCF_ACCELERATORS))
AcceleratorTableType ==
    IF PCF_BDF_ACCELERATORS \in DOMAIN tables THEN PCF_BDF_ACCELERATORS
    ELSE PCF_ACCELERATORS

read_accelerators_steps ==
    LET cursor == TableOffset(AcceleratorTableType)
        format == LittleEndian_read_i32(cursor)
        ink    == BitAnd(format, PCF_ACCEL_W_INKBOUNDS) # 0
    IN  << <<"check", AcceleratorTableType \in DOMAIN tables, "missing_table">>,
           <<"read", cursor, 4>>,
           <<"check", BitAnd(format, PCF_BYTE_MASK) # 0, "assert">>,
           <<"read", UAdd(cursor, 4), 8>>,
           <<"read", UAdd(cursor, 12), 4>>,
           <<"read", UAdd(cursor, 16), 4>>,
           <<"read", UAdd(cursor, 20), 4>>,
           <<"read", UAdd(cursor, 24), 12>>,
           <<"read", UAdd(cursor, 36), 12>> >> \o
        (IF ink THEN << <<"read", UAdd(cursor, 48), 12>>,
                        <<"read", UAdd(cursor, 60), 12>> >>
         ELSE << >>)

\* read_accelerators that reads two more records whatever the format says
read_accelerators_ink_always ==
    LET cursor    == TableOffset(AcceleratorTableType)
        minbounds == read_uncompressed_metrics(cursor + 24)
        maxbounds == read_uncompressed_metrics(cursor + 36)
    IN  [no_overlap       |-> Byte(cursor + 4),
         constant_metrics |-> Byte(cursor + 5),
         terminal_font    |-> Byte(cursor + 6),
         constant_width   |-> Byte(cursor + 7),
         ink_inside       |-> Byte(cursor + 8),
         ink_metrics      |-> Byte(cursor + 9),
         draw_direction   |-> Byte(cursor + 10),
         padding          |-> Byte(cursor + 11),
         font_ascent      |-> BigEndian_read_i32(cursor + 12),
         font_descent     |-> BigEndian_read_i32(cursor + 16),
         max_overlap      |-> BigEndian_read_i32(cursor + 20),
         minbounds        |-> minbounds,
         maxbounds        |-> maxbounds,
         ink_minbounds    |-> read_uncompressed_metrics(cursor + 48),
         ink_maxbounds    |-> read_uncompressed_metrics(cursor + 60)]

read_accelerators ==
    LET cursor    == TableOffset(AcceleratorTableType)
        format    == LittleEndian_read_i32(cursor)
        ink       == BitAnd(format, PCF_ACCEL_W_INKBOUNDS) # 0
        minbounds == read_uncompressed_metrics(cursor + 24)
        maxbounds == read_uncompressed_metrics(cursor + 36)
    IN  [no_overlap       |-> Byte(cursor + 4),
         constant_metrics |-> Byte(cursor + 5),
         terminal_font    |-> Byte(cursor + 6),
         constant_width   |-> Byte(cursor + 7),
         ink_inside       |-> Byte(cursor + 8),
         ink_metrics      |-> Byte(cursor + 9),
         draw_direction   |-> Byte(cursor + 10),
         padding          |-> Byte(cursor + 11),
         font_ascent      |-> BigEndian_read_i32(cursor + 12),
         font_descent     |-> BigEndian_read_i32(cursor + 16),
         max_overlap      |-> BigEndian_read_i32(cursor + 20),
         minbounds        |-> minbounds,
         maxbounds        |-> maxbounds,
         ink_minbounds    |-> IF ink THEN read_uncompressed_metrics(cursor + 48)
                              ELSE minbounds,
         ink_maxbounds    |-> IF ink THEN read_uncompressed_metrics(cursor + 60)
                              ELSE maxbounds]

DefaultAccelerators ==
    [no_overlap |-> 0, constant_metrics |-> 0, terminal_font |-> 0,
     constant_width |-> 0, ink_inside |-> 0, ink_metrics |-> 0,
     draw_direction |-> 0, padding |-> 0, font_ascent |-> 0, font_descent |-> 0,
     max_overlap |-> 0, minbounds |-> DefaultMetrics, maxbounds |-> DefaultMetrics,
     ink_minbounds |-> DefaultMetrics, ink_maxbounds |-> DefaultMetrics]

-----------------------------------------------------------------------------
(* read_encoding                                                           *)

read_encoding_steps ==
    LET cursor == TableOffset(PCF_BDF_ENCODINGS)
        format == LittleEndian_read_i32(cursor)
    IN  << <<"check", PCF_BDF_ENCODINGS \in DOMAIN tables, "missing_table">>,
           <<"read", cursor, 4>>,
           <<"check", BitAnd(format, PCF_DEFAULT_FORMAT) = 0, "assert">>,
           <<"read", UAdd(cursor, 4), 2>>,
           <<"read", UAdd(cursor, 6), 2>>,
           <<"read", UAdd(cursor, 8), 2>>,
           <<"read", UAdd(cursor, 10), 2>>,
           <<"read", UAdd(cursor, 12), 2>>,
           <<"check", BigEndian_read_i16(UAdd(cursor, 4)) >= 0, "unwrap">>,
           <<"check", BigEndian_read_i16(UAdd(cursor, 6)) >= 0, "unwrap">>,
           <<"check", BigEndian_read_i16(UAdd(cursor, 8)) >= 0, "unwrap">>,
           <<"check", BigEndian_read_i16(UAdd(cursor, 10)) >= 0, "unwrap">>,
           <<"check", BigEndian_read_i16(UAdd(cursor, 12)) >= 0, "unwrap">> >>

read_encoding ==
    LET cursor == TableOffset(PCF_BDF_ENCODINGS)
    IN  [min_byte2    |-> BigEndian_read_i16(cursor + 4),
         max_byte2    |-> BigEndian_read_i16(cursor + 6),
         min_byte1    |-> BigEndian_read_i16(cursor + 8),
         max_byte1    |-> BigEndian_read_i16(cursor + 10),
         default_char |-> BigEndian_read_i16(cursor + 12)]

DefaultEncoding ==
    [min_byte2 |-> 0, max_byte2 |-> 0, min_byte1 |-> 0, max_byte1 |-> 0,
     default_char |-> 0]

-----------------------------------------------------------------------------
(* read_bitmap                                                             *)

\* cursor += (4 * glyph_count) as usize: the i32 product may overflow, and a
\* negative product, cast to usize, makes the addition overflow.  `cursor`
\* is what the release build continues with.
SkipBitmapOffsets(cursor, glyph_count) ==
    LET fits == Mul4FitsI32(glyph_count)
        prod == IF fits THEN 4 * glyph_count ELSE Mul4WrapI32(glyph_count)
    IN  IF prod >= 0
        THEN [overflow |-> ~fits, cursor |-> UAdd(cursor, prod)]
        ELSE IF cursor + prod >= 0
             THEN [overflow |-> TRUE, cursor |-> cursor + prod]
             ELSE [overflow |-> ~fits, cursor |-> USat]

BitmapCursors ==
    LET c0 == TableOffset(PCF_BITMAPS)
        c2 == UAdd(c0, 8)
        gc == BigEndian_read_i32(UAdd(c0, 4))
    IN  [format |-> c0, glyph_count |-> UAdd(c0, 4),
         skip |-> SkipBitmapOffsets(c2, gc)]

BitmapSizes ==
    LET c == BitmapCursors.skip.cursor
    IN  << BigEndian_read_i32(c), BigEndian_read_i32(UAdd(c, 4)),
           BigEndian_read_i32(UAdd(c, 8)), BigEndian_read_i32(UAdd(c, 12)) >>

read_bitmap ==
    LET format == LittleEndian_read_i32(BitmapCursors.format)
    IN  [glyph_count  |-> BigEndian_read_i32(BitmapCursors.glyph_count),
         bitmap_sizes |-> BitmapSizes[BitAnd(format, 3) + 1]]

read_bitmap_steps ==
    LET k      == BitmapCursors
        format == LittleEndian_read_i32(k.format)
        c      == k.skip.cursor
    IN  << <<"check", PCF_BITMAPS \in DOMAIN tables, "missing_table">>,
           <<"read", k.format, 4>>,
           <<"check", BitAnd(format, PCF_DEFAULT_FORMAT) = 0, "assert">>,
           <<"read", k.glyph_count, 4>>,
           <<"check", build = "release" \/ ~k.skip.overflow, "overflow">>,
           <<"read", c, 4>>,
           <<"read", UAdd(c, 4), 4>>,
           <<"read", UAdd(c, 8), 4>>,
           <<"read", UAdd(c, 12), 4>>,
           <<"check", read_bitmap.glyph_count >= 0, "unwrap">>,
           <<"check", read_bitmap.bitmap_sizes >= 0, "unwrap">> >>

DefaultBitmap == [glyph_count |-> 0, bitmap_sizes |-> 0]

-----------------------------------------------------------------------------
(* get_bounding_box: i16 arithmetic on the ink bounds                      *)

BoundingBoxTerms ==
    LET minbounds == accelerators.ink_minbounds
        maxbounds == accelerators.ink_maxbounds
    IN  [width  |-> maxbounds.right_side_bearing - minbounds.left_side_bearing,
         height |-> maxbounds.character_ascent + maxbounds.character_descent,
         neg    |-> 0 - maxbounds.character_descent]

get_bounding_box_steps ==
    LET t == BoundingBoxTerms
    IN  << <<"check", build = "release" \/ FitsI16(t.width), "overflow">>,
           <<"check", build = "release" \/ FitsI16(t.height), "overflow">>,
           <<"check", build = "release" \/ FitsI16(t.neg), "overflow">> >>

Coord_new(x, y) == [x |-> x, y |-> y]

get_bounding_box ==
    LET t == BoundingBoxTerms
    IN  [size   |-> Coord_new(WrapI16(t.width), WrapI16(t.height)),
         offset |-> Coord_new(accelerators.ink_minbounds.left_side_bearing,
                              WrapI16(t.neg))]

DefaultBoundingBox == [size |-> Coord_new(0, 0), offset |-> Coord_new(0, 0)]

-----------------------------------------------------------------------------
(* load_metadata                                                           *)

load_metadata_steps ==
    << <<"check", PCF_BDF_ENCODINGS \in DOMAIN tables, "missing_table">>,
       <<"check", PCF_BITMAPS \in DOMAIN tables, "missing_table">>,
       <<"check", PCF_METRICS \in DOMAIN tables, "missing_table">> >>

\* load_metadata that takes every metrics table for a compressed one
load_metadata_always_compressed ==
    [indices_offset         |-> UAdd(TableOf(PCF_BDF_ENCODINGS).offset, 14),
     bitmap_offset_offsets  |-> UAdd(TableOf(PCF_BITMAPS).offset, 8),
     first_bitmap_offset    |->
         UAdd(TableOf(PCF_BITMAPS).offset, UMul(4, UAdd(6, bitmap.glyph_count))),
     metrics_compressed_raw |-> PCF_COMPRESSED_METRICS,
     is_metrics_compressed  |-> TRUE,
     first_metric_offset    |-> UAdd(TableOf(PCF_METRICS).offset, 6),
     metrics_size           |-> 5]

load_metadata ==
    LET raw == BitAnd(TableOf(PCF_METRICS).format, PCF_COMPRESSED_METRICS)
        is_metrics_compressed == raw # 0
    IN  [indices_offset         |-> UAdd(TableOf(PCF_BDF_ENCODINGS).offset, 14),
         bitmap_offset_offsets  |-> UAdd(TableOf(PCF_BITMAPS).offset, 8),
         first_bitmap_offset    |->
             UAdd(TableOf(PCF_BITMAPS).offset, UMul(4, UAdd(6, bitmap.glyph_count))),
         metrics_compressed_raw |-> raw,
         is_metrics_compressed  |-> is_metrics_compressed,
         first_metric_offset    |->
             UAdd(TableOf(PCF_METRICS).offset, IF is_metrics_compressed THEN 6 ELSE 8),
         metrics_size           |-> IF is_metrics_compressed THEN 5 ELSE 12]

DefaultMetadata ==
    [indices_offset |-> 0, bitmap_offset_offsets |-> 0, first_bitmap_offset |-> 0,
     metrics_compressed_raw |-> 0, is_metrics_compressed |-> FALSE,
     first_metric_offset |-> 0, metrics_size |-> 0]

-----------------------------------------------------------------------------
(* load_glyph_indices                                                      *)

CodePoints == 0 .. U16_MAX

Enc1(code_point) == (code_point \div 256) % 256
Enc2(code_point) == code_point % 256

\* The first early return of the closure is not taken.
RowInRange(enc1) == ~(enc1 < encoding.min_byte1 \/ enc1 > encoding.max_byte1)

\* The second early return of the closure is not taken.
ColumnInRange(enc2) == ~(enc2 < encoding.min_byte2 \/ enc2 > encoding.max_byte2)

InEncodingRange(code_point) ==
    RowInRange(Enc1(code_point)) /\ ColumnInRange(Enc2(code_point))

\* IndexCursor with rows one entry short (max_byte2 - min_byte2 columns)
IndexCursor_short_rows(code_point) ==
    LET encoding_idx ==
            (Enc1(code_point) - encoding.min_byte1)
                * (encoding.max_byte2 - encoding.min_byte2)
            + Enc2(code_point) - encoding.min_byte2
    IN  UAdd(metadata.indices_offset, 2 * encoding_idx)

IndexCursor(code_point) ==
    LET encoding_idx ==
            (Enc1(code_point) - encoding.min_byte1)
                * (encoding.max_byte2 - encoding.min_byte2 + 1)
            + Enc2(code_point) - encoding.min_byte2
    IN  UAdd(metadata.indices_offset, 2 * encoding_idx)

\* The code points of 0 ..= u16::MAX whose table entry is read.  The filter
\* looks at enc1 and enc2 only, and every pair of bytes is one code point.
IndexReads ==
    {256 * enc1 + enc2 : enc1 \in {b \in 0 .. 255 : RowInRange(b)},
                         enc2 \in {b \in 0 .. 255 : ColumnInRange(b)}}

\* The last code point whose table entry is read (the reads ascend).
LastIndexRead ==
    256 * Min(encoding.max_byte1, 255) + Min(encoding.max_byte2, 255)

load_glyph_indices_steps ==
    LET reads == IndexReads
    IN  << <<"check", \A c \in reads : CanRead(IndexCursor(c), 2), "out_of_bounds">> >>
        \o (IF reads = {} THEN << >>
            ELSE << <<"read", IndexCursor(LastIndexRead), 2>> >>)

\* load_glyph_indices looking at the first row of the encoding only
load_glyph_indices_first_row ==
    LET found == {c \in IndexReads : c < 256 + 256 * encoding.min_byte1
                                     /\ BigEndian_read_u16(IndexCursor(c)) # 65535}
    IN  [c \in found |-> BigEndian_read_u16(IndexCursor(c))]

load_glyph_indices ==
    LET found == {c \in IndexReads : BigEndian_read_u16(IndexCursor(c)) # 65535}
    IN  [c \in found |-> BigEndian_read_u16(IndexCursor(c))]

-----------------------------------------------------------------------------
(* Iterating a HashMap: the order is any enumeration of its keys, and      *)
(* .map(f).collect() inserts f's pairs into a fresh map in that order.     *)

Orders(S) ==
    {s \in [1 .. Cardinality(S) -> S] :
        \A i, j \in 1 .. Cardinality(S) : i # j => s[i] # s[j]}

RECURSIVE CollectFrom(_, _, _, _)
CollectFrom(ord, f, i, acc) ==
    IF i > Len(ord) THEN acc
    ELSE CollectFrom(ord, f, i + 1, HashMapInsert(acc, ord[i], f[ord[i]]))

Collect(ord, f) == CollectFrom(ord, f, 1, << >>)

RECURSIVE StepsInOrder(_, _, _)
StepsInOrder(ord, stepsOf, i) ==
    IF i > Len(ord) THEN << >>
    ELSE stepsOf[ord[i]] \o StepsInOrder(ord, stepsOf, i + 1)

-----------------------------------------------------------------------------
(* load_all_metrics, read_compressed_metrics, load_bitmap_offsets          *)

\* read_compressed_metrics that removes the bias in u8 arithmetic, wrapping
read_compressed_metrics_in_u8(cursor) ==
    [left_side_bearing    |-> (Byte(cursor) + 128) % 256,
     right_side_bearing   |-> (Byte(cursor + 1) + 128) % 256,
     character_width      |-> (Byte(cursor + 2) + 128) % 256,
     character_ascent     |-> (Byte(cursor + 3) + 128) % 256,
     character_descent    |-> (Byte(cursor + 4) + 128) % 256,
     character_attributes |-> 0]

read_compressed_metrics(cursor) ==
    [left_side_bearing    |-> Byte(cursor) - 128,
     right_side_bearing   |-> Byte(cursor + 1) - 128,
     character_width      |-> Byte(cursor + 2) - 128,
     character_ascent     |-> Byte(cursor + 3) - 128,
     character_descent    |-> Byte(cursor + 4) - 128,
     character_attributes |-> 0]

MetricsCursor(index) ==
    UAdd(metadata.first_metric_offset, metadata.metrics_size * index)

load_all_metrics_steps(ord) ==
    StepsInOrder(ord,
        [c \in DOMAIN indices |-> << <<"read", MetricsCursor(indices[c]), 5>> >>], 1)

load_all_metrics(ord) ==
    Collect(ord, [c \in DOMAIN indices |->
                     read_compressed_metrics(Clamp(MetricsCursor(indices[c])))])

\* BitmapOffsetCursor taking the entry after the glyph's own
BitmapOffsetCursor_next_entry(index) ==
    UAdd(metadata.bitmap_offset_offsets, 4 * (index + 1))

BitmapOffsetCursor(index) == UAdd(metadata.bitmap_offset_offsets, 4 * index)

load_bitmap_offsets_steps(ord) ==
    StepsInOrder(ord,
        [c \in DOMAIN indices |-> << <<"read", BitmapOffsetCursor(indices[c]), 4>> >>], 1)

load_bitmap_offsets(ord) ==
    Collect(ord, [c \in DOMAIN indices |->
                     BigEndian_read_u32(BitmapOffsetCursor(indices[c]))])

-----------------------------------------------------------------------------
(* create_glyphs                                                           *)

GlyphWidth(metrics) == metrics.right_side_bearing - metrics.left_side_bearing
GlyphHeight(metrics) == metrics.character_ascent + metrics.character_descent

create_glyphs_steps(ord) ==
    StepsInOrder(ord,
        [c \in DOMAIN all_metrics |->
            << <<"check",
                 GlyphWidth(all_metrics[c]) * GlyphHeight(all_metrics[c]) >= 0,
                 "unwrap">> >>], 1)

\* create_glyph that forgets to negate the descent and takes the glyph
\* width for the advance
create_glyph_plain_descent(code_point, metrics) ==
    LET width  == GlyphWidth(metrics)
        height == GlyphHeight(metrics)
    IN  [bitmap       |-> [i \in 1 .. (width * height) |-> 0],
         code_point   |-> code_point,
         encoding     |-> char_from_u32(code_point),
         bounding_box |->
             [size   |-> Coord_new(width, height),
              offset |-> Coord_new(metrics.left_side_bearing,
                                   metrics.character_descent)],
         shift_x      |-> width,
         shift_y      |-> 0,
         tile_index   |-> 0]

create_glyph(code_point, metrics) ==
    LET width  == GlyphWidth(metrics)
        height == GlyphHeight(metrics)
    IN  [bitmap       |-> [i \in 1 .. (width * height) |-> 0],
         code_point   |-> code_point,
         encoding     |-> char_from_u32(code_point),
         bounding_box |->
             [size   |-> Coord_new(width, height),
              offset |-> Coord_new(metrics.left_side_bearing,
                                   0 - metrics.character_descent)],
         shift_x      |-> metrics.character_width,
         shift_y      |-> 0,
         tile_index   |-> 0]

create_glyphs(ord) ==
    Collect(ord, [c \in DOMAIN all_metrics |-> create_glyph(c, all_metrics[c])])

-----------------------------------------------------------------------------
(* fill_glyph_bitmaps                                                      *)

GlyphBitmapOffset(code_point) ==
    UAdd(metadata.first_bitmap_offset, bitmap_offsets[code_point])

\* 4 * ((width + 31) / 32) for a width that is not negative
BytesPerRow(width) == 4 * ((width + 31) \div 32)

\* What filling one glyph reads and checks.  A negative width or height is
\* a huge usize: width + 31 overflows for -31 <= width < 0, a negative
\* height loops (in effect) for ever over empty rows when the width is 0,
\* and any row of a glyph of negative width leaves the buffer.
fill_glyph_steps(glyph, offset) ==
    LET width  == glyph.bounding_box.size.x
        height == glyph.bounding_box.size.y
    IN  IF width >= 0
        THEN IF height >= 0
             THEN [y \in 1 .. height |->
                      <<"read", UAdd(offset, BytesPerRow(width) * (y - 1)),
                        BytesPerRow(width)>>]
             ELSE << <<"read", offset, 0>>, <<"check", FALSE, "hang">> >>
        ELSE (IF width >= -31
              THEN << <<"check", build = "release", "overflow">> >>
              ELSE << >>)
             \o (IF height = 0 THEN << >>
                 ELSE << <<"check", FALSE, "out_of_bounds">> >>)

\* 128 >> (x % 8)
PixelMask(x) == 128 \div (2 ^ (x % 8))

\* fill_glyph without the column's byte: every pixel of a row tests the
\* first byte of the row (the inner loop of pcf.rs)
fill_glyph_first_byte(glyph, offset) ==
    LET width  == glyph.bounding_box.size.x
        height == glyph.bounding_box.size.y
    IN  IF width <= 0 \/ height <= 0 THEN glyph
        ELSE [glyph EXCEPT !.bitmap =
                 [i \in 1 .. (width * height) |->
                     LET y     == (i - 1) \div width
                         x     == (i - 1) % width
                         start == offset + BytesPerRow(width) * y
                         on    == BitAnd(Byte(start), PixelMask(x)) # 0
                     IN  IF on THEN 1 ELSE glyph.bitmap[i]]]

\* fill_glyph storing the pixels column by column
fill_glyph_column_major(glyph, offset) ==
    LET width  == glyph.bounding_box.size.x
        height == glyph.bounding_box.size.y
    IN  IF width <= 0 \/ height <= 0 THEN glyph
        ELSE [glyph EXCEPT !.bitmap =
                 [i \in 1 .. (width * height) |->
                     LET x     == (i - 1) \div height
                         y     == (i - 1) % height
                         start == offset + BytesPerRow(width) * y
                         byte  == Byte(start + (x \div 8))
                         on    == BitAnd(byte, PixelMask(x)) # 0
                     IN  IF on THEN 1 ELSE glyph.bitmap[i]]]

fill_glyph(glyph, offset) ==
    LET width  == glyph.bounding_box.size.x
        height == glyph.bounding_box.size.y
    IN  IF width <= 0 \/ height <= 0 THEN glyph
        ELSE [glyph EXCEPT !.bitmap =
                 [i \in 1 .. (width * height) |->
                     LET y     == (i - 1) \div width
                         x     == (i - 1) % width
                         start == offset + BytesPerRow(width) * y
                         byte  == Byte(start + (x \div 8))
                         on    == BitAnd(byte, PixelMask(x)) # 0
                     IN  IF on THEN 1 ELSE glyph.bitmap[i]]]

fill_glyph_bitmaps_steps(ord) ==
    StepsInOrder(ord,
        [c \in DOMAIN glyphs |-> fill_glyph_steps(glyphs[c], GlyphBitmapOffset(c))], 1)

\* fill_glyph_bitmaps that leaves the glyph iterated first unfilled, so that
\* the result depends on the iteration order
fill_glyph_bitmaps_skip_first(ord) ==
    Collect(ord, [c \in DOMAIN glyphs |->
                     IF c = ord[1] THEN glyphs[c]
                     ELSE fill_glyph(glyphs[c], Clamp(GlyphBitmapOffset(c)))])

fill_glyph_bitmaps(ord) ==
    Collect(ord, [c \in DOMAIN glyphs |->
                     fill_glyph(glyphs[c], Clamp(GlyphBitmapOffset(c)))])

-----------------------------------------------------------------------------
(* Font images.  A description names the parts of a PCF file; Image lays   *)
(* them out: header, table directory, accelerator tables, metrics,         *)
(* bitmaps, and the encoding table last.                                   *)

MaxTables == 6
MaxGlyphs == 4

DirOff    == 4 + 4
AccOff    == DirOff + 16 * MaxTables
BdfAccOff == AccOff + 72
MetOff    == BdfAccOff + 72
BmpOff    == MetOff + 8 + 5 * (MaxGlyphs + 1)
EncOff    == BmpOff + 4 * (6 + MaxGlyphs) + 16 * (MaxGlyphs + 1)

LE32bytes(v) ==
    LET u == Low31(v)
    IN  <<u % 256, (u \div 256) % 256, (u \div 65536) % 256,
          (u \div 16777216) + (IF v < 0 THEN 128 ELSE 0)>>

BE32bytes(v) ==
    LET b == LE32bytes(v) IN <<b[4], b[3], b[2], b[1]>>

BE16bytes(v) ==
    LET u == IF v < 0 THEN v + 65536 ELSE v
    IN  <<(u \div 256) % 256, u % 256>>

Put(off, s) == [i \in off .. (off + Len(s) - 1) |-> s[i - off + 1]]

RECURSIVE PutAll(_, _)
PutAll(segs, i) ==
    IF i > Len(segs) THEN << >>
    ELSE Put(segs[i][1], segs[i][2]) @@ PutAll(segs, i + 1)

Rec(type, format, offset) ==
    [type |-> type, format |-> format, size |-> 0, offset |-> offset]

DirSegs(dir) ==
    [i \in 1 .. Len(dir) |->
        <<DirOff + 16 * (i - 1),
          LE32bytes(dir[i].type) \o LE32bytes(dir[i].format)
            \o LE32bytes(dir[i].size) \o LE32bytes(dir[i].offset)>>]

\* six big-endian 16-bit fields of an uncompressed metrics record
BoundsBytes(m) ==
    BE16bytes(m[1]) \o BE16bytes(m[2]) \o BE16bytes(m[3])
      \o BE16bytes(m[4]) \o BE16bytes(m[5]) \o <<0, 0>>

AccSeg(off, a) ==
    <<off,
      LE32bytes(a.format) \o <<0, 0, 1, 0, 1, 0, 0, 0>>
        \o BE32bytes(a.ascent) \o BE32bytes(a.descent) \o BE32bytes(0)
        \o BoundsBytes(a.minb) \o BoundsBytes(a.maxb)
        \o BoundsBytes(a.inkmin) \o BoundsBytes(a.inkmax)>>

\* compressed metrics: five bytes, each the value plus 0x80
MetricBytes(m) == <<m[1] + 128, m[2] + 128, m[3] + 128, m[4] + 128, m[5] + 128>>

RECURSIVE Flatten(_, _)
Flatten(ss, i) == IF i > Len(ss) THEN << >> ELSE ss[i] \o Flatten(ss, i + 1)

MetSeg(d) ==
    <<MetOff,
      LE32bytes(d.metFormat) \o BE16bytes(Len(d.glyphs))
        \o Flatten([i \in 1 .. Len(d.glyphs) |-> MetricBytes(d.glyphs[i].met)], 1)>>

PixelByte(pattern, i) ==
    CASE pattern = 1 -> (37 * i + 11) % 256
      [] pattern = 2 -> (101 * i + 170) % 256
      [] pattern = 3 -> 0
      [] OTHER       -> FillByte

BmpDataOff(d) == BmpOff + 4 * (6 + Len(d.glyphs))

BmpSeg(d) ==
    <<BmpOff,
      LE32bytes(d.bmpFormat) \o BE32bytes(d.glyphCount)
        \o Flatten([i \in 1 .. Len(d.glyphs) |-> BE32bytes(d.glyphs[i].off)], 1)
        \o BE32bytes(d.sizes[1]) \o BE32bytes(d.sizes[2])
        \o BE32bytes(d.sizes[3]) \o BE32bytes(d.sizes[4])
        \o [i \in 1 .. d.dataLen |-> PixelByte(d.pattern, i)]>>

EncSeg(d) ==
    <<EncOff,
      LE32bytes(d.encFormat) \o BE16bytes(d.enc[1]) \o BE16bytes(d.enc[2])
        \o BE16bytes(d.enc[3]) \o BE16bytes(d.enc[4]) \o BE16bytes(d.enc[5])>>

\* the entries of the index array that name a glyph; all others stay 0xFFFF
IndexSegs(d) ==
    LET es == d.entries
    IN  [i \in 1 .. Len(es) |-> <<EncOff + 14 + 2 * es[i][1], BE16bytes(es[i][2])>>]

Columns(d) == d.enc[2] - d.enc[1] + 1
Rows(d)    == d.enc[4] - d.enc[3] + 1

FullLen(d) == EncOff + 14 + 2 * Max(0, Rows(d)) * Max(0, Columns(d))

Image(d) ==
    [len  |-> IF d.len < 0 THEN FullLen(d) ELSE d.len,
     data |-> PutAll(<< <<0, LE32bytes(d.magic)>>, <<4, LE32bytes(d.count)>> >>
                       \o DirSegs(d.dir)
                       \o << AccSeg(AccOff, d.acc), AccSeg(BdfAccOff, d.bdfAcc),
                             MetSeg(d), BmpSeg(d), EncSeg(d) >>
                       \o IndexSegs(d), 1)]

-----------------------------------------------------------------------------
(* The fonts explored: a base font and families that each vary one part.   *)

\* compressed metrics <<lsb, rsb, width, ascent, descent>> of sample glyphs
GlyphA == <<0, 7, 8, 2, 0>>
GlyphW == <<0, 11, 12, 2, 0>>
GlyphJ == <<-1, 2, 4, 1, 2>>
GlyphL == <<0, 33, 34, 1, 0>>
GlyphZ == <<0, 0, 4, 0, 0>>

GlyphBytes(m) == 4 * ((m[2] - m[1] + 31) \div 32) * (m[4] + m[5])

RECURSIVE DataLenOf(_, _)
DataLenOf(mets, n) == IF n = 0 THEN 0 ELSE DataLenOf(mets, n - 1) + GlyphBytes(mets[n])

GlyphsOf(mets) == [i \in 1 .. Len(mets) |-> [met |-> mets[i], off |-> DataLenOf(mets, i - 1)]]

GlyphSets ==
    { << >>, <<GlyphA>>, <<GlyphA, GlyphW>>, <<GlyphJ, GlyphL, GlyphZ>>,
      <<GlyphW, GlyphL, GlyphA, GlyphJ>> }

Patterns == 1 .. 3

BaseAcc ==
    [format |-> PCF_BYTE_MASK, ascent |-> 7, descent |-> 2,
     minb |-> <<-1, 0, 4, 0, 0>>, maxb |-> <<0, 33, 34, 2, 2>>,
     inkmin |-> <<0, 1, 4, 1, 0>>, inkmax |-> <<1, 30, 34, 2, 1>>]

BaseBdfAcc ==
    [format |-> PCF_BYTE_MASK + PCF_ACCEL_W_INKBOUNDS, ascent |-> 9, descent |-> 3,
     minb |-> <<-2, 0, 4, 0, 0>>, maxb |-> <<0, 35, 36, 3, 3>>,
     inkmin |-> <<0, 2, 4, 1, 0>>, inkmax |-> <<1, 31, 36, 3, 1>>]

BaseDir ==
    << Rec(PCF_ACCELERATORS, PCF_BYTE_MASK, AccOff),
       Rec(PCF_METRICS, PCF_COMPRESSED_METRICS + PCF_BYTE_MASK, MetOff),
       Rec(PCF_BITMAPS, 14, BmpOff),
       Rec(PCF_BDF_ENCODINGS, PCF_BYTE_MASK, EncOff) >>

\* one row of n characters from 'A', the i-th naming glyph i - 1
EncNarrow(n) == <<65, 64 + Max(n, 1), 0, 0, 65>>
Identity(n)  == [i \in 1 .. n |-> <<i - 1, i - 1>>]

Font(mets, pattern, enc, entries) ==
    [magic |-> PCF_MAGIC, count |-> Len(BaseDir), dir |-> BaseDir,
     acc |-> BaseAcc, bdfAcc |-> BaseBdfAcc,
     metFormat |-> PCF_COMPRESSED_METRICS + PCF_BYTE_MASK,
     glyphs |-> GlyphsOf(mets), glyphCount |-> Len(mets),
     bmpFormat |-> 14, pattern |-> pattern, dataLen |-> DataLenOf(mets, Len(mets)),
     sizes |-> <<DataLenOf(mets, Len(mets)) + 1, DataLenOf(mets, Len(mets)) + 2,
                 DataLenOf(mets, Len(mets)), DataLenOf(mets, Len(mets)) + 3>>,
     encFormat |-> PCF_BYTE_MASK, enc |-> enc, entries |-> entries, len |-> 0 - 1]

BaseFont == Font(<<GlyphA, GlyphW>>, 1, EncNarrow(2), Identity(2))

PixelFonts ==
    {Font(mets, p, EncNarrow(Len(mets)), Identity(Len(mets))) :
        mets \in GlyphSets, p \in Patterns}

\* the entry of the index array for code point c under encoding enc
EntryOf(enc, c) == (Enc1(c) - enc[3]) * (enc[2] - enc[1] + 1) + (Enc2(c) - enc[1])

EncWide == <<SPACE, 253, 0, 255, SPACE>>

\* space, 'A', U+FFFD and a surrogate (which is no char) name glyphs 0 .. 3
WideChars == <<SPACE, 65, REPLACEMENT_CHARACTER, 55296 + SPACE>>

WideFonts ==
    {Font(<<GlyphA, GlyphJ, GlyphW, GlyphZ>>, 1, EncWide,
          [i \in 1 .. Len(WideChars) |-> <<EntryOf(EncWide, WideChars[i]), i - 1>>])}

EncodingFonts ==
    {Font(<<GlyphA, GlyphW>>, 2, e[1], e[2]) :
        e \in { << <<65, 66, 0, 1, 65>>, << <<1, 1>>, <<2, 0>> >> >>,
                << <<65, 66, 1, 2, 65>>, << <<0, 0>>, <<3, 1>> >> >>,
                << <<65, 67, 0, 0, 65>>, << <<0, 1>>, <<2, 1>> >> >>,
                << <<66, 65, 0, 0, 65>>, << >> >>,
                << <<250, 300, 0, 0, 65>>, << <<0, 0>>, <<5, 1>> >> >>,
                << <<65, 65, 0, 0, 65>>, << <<0, 7>> >> >>,
                << <<65, 66, -1, 0, 65>>, << >> >>,
                << <<-3, 66, 0, 0, 65>>, << >> >> }}

TruncationLens ==
    {0, 3, 4, 7, DirOff + 15, DirOff + 63, DirOff + 64, AccOff + 3, AccOff + 47,
     AccOff + 48, MetOff, BmpOff + 3, BmpOff + 7, BmpOff + 20, BmpOff + 31,
     BmpOff + 32, BmpOff + 40, BmpOff + 47, EncOff + 3, EncOff + 13, EncOff + 14,
     EncOff + 15, EncOff + 17}

TruncatedFonts == {[BaseFont EXCEPT !.len = n] : n \in TruncationLens}

BadOffsets == {FullLen(BaseFont) - 2, FullLen(BaseFont), 1073741824, USat, 0 - 1, I32_MIN}

OffsetFonts ==
    {[BaseFont EXCEPT !.dir[i].offset = o] : i \in 1 .. Len(BaseDir), o \in BadOffsets}

\* ways the table directory can be laid out
Directories ==
    { << >>, <<BaseDir[1]>>, <<BaseDir[1], BaseDir[4]>>,
      <<BaseDir[1], BaseDir[4], BaseDir[3]>>, <<BaseDir[2], BaseDir[3], BaseDir[4]>>,
      BaseDir \o << Rec(PCF_BDF_ACCELERATORS, PCF_BYTE_MASK, BdfAccOff) >>,
      << Rec(PCF_BDF_ACCELERATORS, PCF_BYTE_MASK, BdfAccOff) >> \o BaseDir,
      << Rec(PCF_BDF_ACCELERATORS, PCF_BYTE_MASK, BdfAccOff),
         BaseDir[2], BaseDir[3], BaseDir[4] >>,
      BaseDir \o << Rec(PCF_BITMAPS, 14, 1073741824) >>,
      << Rec(PCF_BITMAPS, 14, 1073741824) >> \o BaseDir,
      BaseDir \o << [Rec(PCF_PROPERTIES, 14, 0) EXCEPT !.size = 1264],
                    [Rec(PCF_SWIDTHS, 0, 0) EXCEPT !.size = 0 - 2] >>,
      << Rec(0 - 1, 0, 0) >> \o BaseDir }

DirectoryFonts ==
    {[BaseFont EXCEPT !.dir = dir, !.count = Len(dir)] : dir \in Directories}
    \cup {[BaseFont EXCEPT !.count = n] : n \in {0 - 1, 0, 3, 5, MaxTables + 1, USat}}

FormatFonts ==
    {[BaseFont EXCEPT !.acc.format = f] : f \in {0, PCF_BYTE_MASK + PCF_ACCEL_W_INKBOUNDS}}
    \cup {[BaseFont EXCEPT !.bmpFormat = f] : f \in {0, 1, 3, 12, 0 - 1}}
    \cup {[BaseFont EXCEPT !.encFormat = f] : f \in {0, PCF_COMPRESSED_METRICS}}
    \cup {[BaseFont EXCEPT !.dir[2].format = f] : f \in {0, PCF_BYTE_MASK}}
    \cup {[BaseFont EXCEPT !.sizes[3] = n] : n \in {0 - 1, 0}}

MagicFonts ==
    {[BaseFont EXCEPT !.magic = m] : m \in {0, PCF_MAGIC + 1, 0 - PCF_MAGIC, 1718378241}}

GlyphCounts == {0 - 1, 1073741824, 1073741824 + 1, 536870912, USat, 3}

GlyphCountFonts ==
    {[f EXCEPT !.glyphCount = n] :
        f \in {BaseFont, Font(<<GlyphZ>>, 1, EncNarrow(1), Identity(1)),
               Font(<< >>, 1, EncNarrow(0), Identity(0))},
        n \in GlyphCounts}

AcceleratorFonts ==
    {[BaseFont EXCEPT !.acc.minb = b[1], !.acc.maxb = b[2]] :
        b \in { << <<-32768, 0, 0, 0, 0>>, <<0, 1, 0, 1, 1>> >>,
                << <<0, 0, 0, 0, 0>>, <<0, 5, 0, 32767, 1>> >>,
                << <<0, 0, 0, 0, 0>>, <<0, 5, 0, 1, -32768>> >>,
                << <<3, 0, 0, 0, 0>>, <<0, 1, 0, -4, 2>> >> }}

\* metrics whose width (right - left) or height (ascent + descent) is negative
GeometryGlyphs ==
    { <<2, 1, 4, 1, 0>>, <<2, 1, 4, 0, 0>>, <<40, 0, 4, 0, 0>>,
      <<2, 1, 4, 0 - 1, 0 - 1>>, <<0, 0, 4, 0, 0 - 1>>, <<0, 1, 4, 0 - 1, 0>> }

GeometryFonts ==
    {Font(<<GlyphA, g>>, 1, EncNarrow(2), Identity(2)) : g \in GeometryGlyphs}

\* metrics at the ends of the range a stored byte can hold
ExtremeGlyphs ==
    { <<0 - 128, 127, 127, 0, 0>>, <<0 - 128, 0 - 128, 0 - 128, 127, 0 - 127>>,
      <<127, 127, 0, 0 - 1, 1>> }

ExtremeFonts ==
    {Font(<<GlyphJ, g>>, 1, EncNarrow(2), Identity(2)) : g \in ExtremeGlyphs}

Fonts ==
    PixelFonts \cup WideFonts \cup EncodingFonts \cup TruncatedFonts \cup OffsetFonts
      \cup DirectoryFonts \cup FormatFonts \cup MagicFonts \cup GlyphCountFonts
      \cup AcceleratorFonts \cup GeometryFonts \cup ExtremeFonts

Builds == {"debug", "release"}

-----------------------------------------------------------------------------
(* eg-pcf-macros: include_pcf and what it calls                            *)

\* x as u32; a negative x is 2^32 + x, held at USat
AsU32(x) == IF x >= 0 THEN x ELSE USat

\* Glyph::pixel of the decoder crate
Glyph_pixel(glyph, x, y) == glyph.bitmap[y * glyph.bounding_box.size.x + x + 1] # 0

CharacterRange_contains(range, c) ==
    IF range.to = None THEN c = range.from
    ELSE range.from <= c /\ c <= Unwrap(range.to)

CharacterRanges_contains(ranges, c) ==
    \E i \in 1 .. Len(ranges) : CharacterRange_contains(ranges[i], c)

IncludePcf_contains(character_ranges, c) ==
    IF character_ranges = None THEN TRUE
    ELSE CharacterRanges_contains(Unwrap(character_ranges), c)

bounding_box_to_rectangle(bb) ==
    [top_left |-> [x |-> bb.offset.x, y |-> ((0 - bb.offset.y) - bb.size.y) - 1],
     size     |-> [width |-> AsU32(bb.size.x), height |-> AsU32(bb.size.y)]]

\* the pixels of the glyph row by row, and the PcfGlyph literal
glyph_literal(glyph, start_index) ==
    LET w == glyph.bounding_box.size.x
        h == glyph.bounding_box.size.y
    IN  [data    |-> IF w <= 0 \/ h <= 0 THEN << >>
                     ELSE [i \in 1 .. (w * h) |->
                              Glyph_pixel(glyph, (i - 1) % w, (i - 1) \div w)],
         literal |-> [character    |-> Unwrap(glyph.encoding),
                      bounding_box |-> bounding_box_to_rectangle(glyph.bounding_box),
                      device_width |-> AsU32(glyph.shift_x),
                      start_index  |-> start_index]]

\* ChunkSum with the first bit of a chunk in the least significant place
RECURSIVE ChunkSum_lsb_first(_, _, _)
ChunkSum_lsb_first(bits, first, i) ==
    IF i > 7 \/ first + i > Len(bits) THEN 0
    ELSE (IF bits[first + i] THEN 2 ^ i ELSE 0) + ChunkSum_lsb_first(bits, first, i + 1)

RECURSIVE ChunkSum(_, _, _)
ChunkSum(bits, first, i) ==
    IF i > 7 \/ first + i > Len(bits) THEN 0
    ELSE (IF bits[first + i] THEN 128 \div (2 ^ i) ELSE 0) + ChunkSum(bits, first, i + 1)

bits_to_bytes(bits) ==
    [k \in 1 .. ((Len(bits) + 7) \div 8) |-> ChunkSum(bits, 8 * (k - 1) + 1, 0)]

\* include_glyph without the is_none() test: a space seen after U+FFFD
\* takes the replacement index over
include_glyph_space_overrides(acc, glyph, character_ranges) ==
    IF glyph.encoding = None THEN acc
    ELSE LET c == Unwrap(glyph.encoding)
         IN  IF ~IncludePcf_contains(character_ranges, c) THEN acc
             ELSE LET lit == glyph_literal(glyph, Len(acc.data))
                  IN  [replacement_character |->
                           IF c = REPLACEMENT_CHARACTER \/ c = SPACE
                           THEN Some(Len(acc.glyphs))
                           ELSE acc.replacement_character,
                       glyphs |-> Append(acc.glyphs, lit.literal),
                       data   |-> acc.data \o lit.data]

\* include_glyph that hands glyph_literal the glyph's position in the glyph
\* list for its start index
include_glyph_start_by_position(acc, glyph, character_ranges) ==
    IF glyph.encoding = None THEN acc
    ELSE LET c == Unwrap(glyph.encoding)
         IN  IF ~IncludePcf_contains(character_ranges, c) THEN acc
             ELSE LET lit == glyph_literal(glyph, Len(acc.glyphs))
                  IN  [replacement_character |->
                           IF c = REPLACEMENT_CHARACTER
                              \/ (c = SPACE /\ acc.replacement_character = None)
                           THEN Some(Len(acc.glyphs))
                           ELSE acc.replacement_character,
                       glyphs |-> Append(acc.glyphs, lit.literal),
                       data   |-> acc.data \o lit.data]

\* one round of the loop over font.glyphs.values()
include_glyph(acc, glyph, character_ranges) ==
    IF glyph.encoding = None THEN acc
    ELSE LET c == Unwrap(glyph.encoding)
         IN  IF ~IncludePcf_contains(character_ranges, c) THEN acc
             ELSE LET lit == glyph_literal(glyph, Len(acc.data))
                  IN  [replacement_character |->
                           IF c = REPLACEMENT_CHARACTER
                              \/ (c = SPACE /\ acc.replacement_character = None)
                           THEN Some(Len(acc.glyphs))
                           ELSE acc.replacement_character,
                       glyphs |-> Append(acc.glyphs, lit.literal),
                       data   |-> acc.data \o lit.data]

RECURSIVE include_loop(_, _, _, _)
include_loop(ord, i, acc, character_ranges) ==
    IF i > Len(ord) THEN acc
    ELSE include_loop(ord, i + 1,
                      include_glyph(acc, glyphs[ord[i]], character_ranges),
                      character_ranges)

include_pcf(ord, character_ranges) ==
    LET acc == include_loop(ord, 1,
                   [replacement_character |-> None, glyphs |-> << >>, data |-> << >>],
                   character_ranges)
    IN  [glyphs                |-> acc.glyphs,
         data                  |-> bits_to_bytes(acc.data),
         line_height           |-> AsU32(bounding_box.size.y),
         replacement_character |->
             IF acc.replacement_character = None THEN 0
             ELSE Unwrap(acc.replacement_character)]

NoFont == [glyphs |-> << >>, data |-> << >>, line_height |-> 0,
           replacement_character |-> 0]

-----------------------------------------------------------------------------
(* eg-pcf: PcfFont::get_glyph                                              *)

\* position (from 1) of the first glyph whose character is c, or 0
RECURSIVE FindFrom(_, _, _)
FindFrom(gs, c, i) ==
    IF i > Len(gs) THEN 0
    ELSE IF gs[i].character = c THEN i ELSE FindFrom(gs, c, i + 1)

get_glyph_steps(f, c) ==
    IF FindFrom(f.glyphs, c, 1) # 0 THEN << >>
    ELSE << <<"check", f.replacement_character < Len(f.glyphs), "index">> >>

\* get_glyph that answers every character with the replacement glyph
get_glyph_replacement_only(f, c) == f.glyphs[f.replacement_character + 1]

get_glyph(f, c) ==
    IF FindFrom(f.glyphs, c, 1) # 0 THEN f.glyphs[FindFrom(f.glyphs, c, 1)]
    ELSE f.glyphs[f.replacement_character + 1]

NoLookup == [c |-> 0, result |-> None]

-----------------------------------------------------------------------------
(* pcf.rs: the decoder that loads glyphs on demand.  It indexes the byte   *)
(* slice directly, keeps offsets as i32 and compressed metrics as u8.      *)

AddFitsI32(a, b) ==
    /\ ~(a >= 0 /\ b >= 0 /\ a > USat - b)
    /\ ~(a < 0 /\ b < 0 /\ a < I32_MIN - b)

AddWrapI32(a, b) ==
    IF a >= 0 /\ b >= 0 /\ a > USat - b THEN (a + I32_MIN) + (b + I32_MIN)
    ELSE IF a < 0 /\ b < 0 /\ a < I32_MIN - b THEN (a - I32_MIN) + (b - I32_MIN)
    ELSE a + b

Mul4I32(x) == IF Mul4FitsI32(x) THEN 4 * x ELSE Mul4WrapI32(x)

\* n reads of `size` bytes each, one after the other from `start`
ReadEach(start, n, size) ==
    [i \in 1 .. n |-> <<"read", UAdd(start, size * (i - 1)), size>>]

pcf_table_count == LittleEndian_read_i32(4)

pcf_RecordAt(i) ==
    LET cursor == 8 + 16 * i
    IN  [type   |-> LittleEndian_read_i32(cursor),
         format |-> LittleEndian_read_i32(cursor + 4),
         size   |-> LittleEndian_read_i32(cursor + 8),
         offset |-> LittleEndian_read_i32(cursor + 12)]

pcf_RoundsToWalk ==
    Max(0, Min(pcf_table_count,
               (IF bytes.len >= 8 THEN (bytes.len - 8) \div 16 ELSE 0) + 1))

RECURSIVE pcf_AllRecordSteps(_, _)
pcf_AllRecordSteps(i, n) ==
    IF i >= n THEN << >>
    ELSE ReadEach(8 + 16 * i, 4, 4) \o pcf_AllRecordSteps(i + 1, n)

pcf_read_tables_steps ==
    << <<"read", 4, 4>> >> \o
    (IF CanRead(4, 4) THEN pcf_AllRecordSteps(0, pcf_RoundsToWalk) ELSE << >>)

RECURSIVE pcf_read_tables_fold(_, _, _)
pcf_read_tables_fold(i, n, tabs) ==
    IF i >= n THEN tabs
    ELSE LET r == pcf_RecordAt(i)
         IN  pcf_read_tables_fold(i + 1, n,
                 HashMapInsert(tabs, r.type,
                     [format |-> r.format, size |-> r.size, offset |-> r.offset]))

pcf_read_tables == pcf_read_tables_fold(0, pcf_table_count, << >>)

pcf_read_accelerators_steps ==
    LET cursor == TableOffset(AcceleratorTableType)
        format == LittleEndian_read_i32(cursor)
        ink    == BitAnd(format, PCF_ACCEL_W_INKBOUNDS) # 0
    IN  << <<"check", AcceleratorTableType \in DOMAIN tables, "assert">>,
           <<"read", cursor, 4>>,
           <<"check", BitAnd(format, PCF_BYTE_MASK) # 0, "assert">> >>
        \o ReadEach(UAdd(cursor, 4), 8, 1)
        \o ReadEach(UAdd(cursor, 12), 3, 4)
        \o ReadEach(UAdd(cursor, 24), IF ink THEN 24 ELSE 12, 2)

pcf_read_accelerators == read_accelerators

pcf_read_encoding_steps ==
    LET cursor == TableOffset(PCF_BDF_ENCODINGS)
        format == LittleEndian_read_i32(cursor)
    IN  << <<"check", PCF_BDF_ENCODINGS \in DOMAIN tables, "missing_table">>,
           <<"read", cursor, 4>>,
           <<"check", BitAnd(format, PCF_DEFAULT_FORMAT) = 0, "assert">> >>
        \o ReadEach(UAdd(cursor, 4), 5, 2)

pcf_read_encoding == read_encoding

pcf_read_bitmap_steps ==
    LET k      == BitmapCursors
        format == LittleEndian_read_i32(k.format)
    IN  << <<"check", PCF_BITMAPS \in DOMAIN tables, "missing_table">>,
           <<"read", k.format, 4>>,
           <<"check", BitAnd(format, PCF_DEFAULT_FORMAT) = 0, "assert">>,
           <<"read", k.glyph_count, 4>>,
           <<"check", build = "release" \/ ~k.skip.overflow, "overflow">> >>
        \o ReadEach(k.skip.cursor, 4, 4)

pcf_read_bitmap == read_bitmap

pcf_get_bounding_box_steps == get_bounding_box_steps

pcf_get_bounding_box == get_bounding_box

\* load_metadata in i32: each sum and the product may overflow
pcf_MetadataTerms ==
    LET enc == TableOf(PCF_BDF_ENCODINGS).offset
        bmp == TableOf(PCF_BITMAPS).offset
        met == TableOf(PCF_METRICS).offset
        cmp == BitAnd(TableOf(PCF_METRICS).format, PCF_COMPRESSED_METRICS) # 0
        n6  == AddWrapI32(6, bitmap.glyph_count)
    IN  [enc |-> enc, bmp |-> bmp, met |-> met, compressed |-> cmp,
         n6 |-> n6, n4 |-> Mul4I32(n6), header |-> IF cmp THEN 6 ELSE 8]

pcf_load_metadata_steps ==
    LET t == pcf_MetadataTerms
    IN  << <<"check", PCF_BDF_ENCODINGS \in DOMAIN tables, "missing_table">>,
           <<"check", build = "release" \/ AddFitsI32(t.enc, 14), "overflow">>,
           <<"check", PCF_BITMAPS \in DOMAIN tables, "missing_table">>,
           <<"check", build = "release" \/ AddFitsI32(t.bmp, 8), "overflow">>,
           <<"check", build = "release" \/ AddFitsI32(6, bitmap.glyph_count), "overflow">>,
           <<"check", build = "release" \/ Mul4FitsI32(t.n6), "overflow">>,
           <<"check", build = "release" \/ AddFitsI32(t.bmp, t.n4), "overflow">>,
           <<"check", PCF_METRICS \in DOMAIN tables, "missing_table">>,
           <<"check", build = "release" \/ AddFitsI32(t.met, t.header), "overflow">> >>

pcf_load_metadata ==
    LET t == pcf_MetadataTerms
    IN  [indices_offset         |-> AddWrapI32(t.enc, 14),
         bitmap_offset_offsets  |-> AddWrapI32(t.bmp, 8),
         first_bitmap_offset    |-> AddWrapI32(t.bmp, t.n4),
         metrics_compressed_raw |->
             BitAnd(TableOf(PCF_METRICS).format, PCF_COMPRESSED_METRICS),
         is_metrics_compressed  |-> t.compressed,
         first_metric_offset    |-> AddWrapI32(t.met, t.header),
         metrics_size           |-> IF t.compressed THEN 5 ELSE 12]

\* a * b in i32 for a, b >= 0, wrapping
RECURSIVE MulWrapI32(_, _)
MulWrapI32(a, b) ==
    IF b = 0 THEN 0
    ELSE LET half == MulWrapI32(a, b \div 2)
             dbl  == AddWrapI32(half, half)
         IN  IF b % 2 = 1 THEN AddWrapI32(dbl, a) ELSE dbl

MulFitsI32(a, b) == a = 0 \/ b <= USat \div a

\* pcf_Enc1 without the & 0xFF
pcf_Enc1_unmasked(code_point) == Low31(code_point) \div 256

pcf_Enc1(code_point) == (Low31(code_point) \div 256) % 256
pcf_Enc2(code_point) == Low31(code_point) % 256

pcf_InEncodingRange(code_point) ==
    /\ pcf_Enc1(code_point) >= encoding.min_byte1
    /\ pcf_Enc1(code_point) <= encoding.max_byte1
    /\ pcf_Enc2(code_point) >= encoding.min_byte2
    /\ pcf_Enc2(code_point) <= encoding.max_byte2

\* indices_offset + 2 * ((enc1 - min1) * (max2 - min2 + 1) + enc2 - min2),
\* term by term in i32
pcf_IndexTerms(code_point) ==
    LET rows == pcf_Enc1(code_point) - encoding.min_byte1
        cols == encoding.max_byte2 - encoding.min_byte2 + 1
        t1   == MulWrapI32(rows, cols)
        t2   == AddWrapI32(t1, pcf_Enc2(code_point))
        t3   == AddWrapI32(t2, 0 - encoding.min_byte2)
        t4   == AddWrapI32(t3, t3)
    IN  [fits   |-> /\ MulFitsI32(rows, cols)
                    /\ AddFitsI32(t1, pcf_Enc2(code_point))
                    /\ AddFitsI32(t2, 0 - encoding.min_byte2)
                    /\ AddFitsI32(t3, t3)
                    /\ AddFitsI32(metadata.indices_offset, t4),
         cursor |-> AddWrapI32(metadata.indices_offset, t4)]

pcf_load_index_steps(code_point) ==
    IF ~pcf_InEncodingRange(code_point) THEN << >>
    ELSE LET t == pcf_IndexTerms(code_point)
         IN  << <<"check", build = "release" \/ t.fits, "overflow">>,
                <<"check", t.cursor >= 0, "unwrap">>,
                <<"read", t.cursor, 2>> >>

pcf_load_index(code_point) ==
    IF ~pcf_InEncodingRange(code_point) THEN None
    ELSE LET glyph_idx == BigEndian_read_u16(pcf_IndexTerms(code_point).cursor)
         IN  IF glyph_idx # 65535 THEN Some(glyph_idx) ELSE None

pcf_load_indices(cps) == [i \in 1 .. Len(cps) |-> pcf_load_index(cps[i])]

\* self.bytes[cursor + k] - 0x80 in u8
pcf_read_compressed_metrics_steps(cursor) ==
    Flatten([k \in 1 .. 5 |->
                << <<"read", UAdd(cursor, k - 1), 1>>,
                   <<"check", build = "release" \/ Byte(Clamp(cursor) + k - 1) >= 128,
                     "overflow">> >>], 1)

pcf_read_compressed_metrics(cursor) ==
    [left_side_bearing    |-> (Byte(cursor) - 128) % 256,
     right_side_bearing   |-> (Byte(cursor + 1) - 128) % 256,
     character_width      |-> (Byte(cursor + 2) - 128) % 256,
     character_ascent     |-> (Byte(cursor + 3) - 128) % 256,
     character_descent    |-> (Byte(cursor + 4) - 128) % 256,
     character_attributes |-> 0]

pcf_MetricsCursor(index) ==
    AddWrapI32(metadata.first_metric_offset, metadata.metrics_size * index)

pcf_load_metrics_steps(index) ==
    IF index = None THEN << >>
    ELSE LET m == metadata.metrics_size * Unwrap(index)
             c == pcf_MetricsCursor(Unwrap(index))
         IN  << <<"check", build = "release"
                             \/ AddFitsI32(metadata.first_metric_offset, m), "overflow">>,
                <<"check", c >= 0, "unwrap">> >>
             \o pcf_read_compressed_metrics_steps(c)

pcf_load_all_metrics(cps, idx) ==
    [i \in 1 .. Len(cps) |->
        IF idx[i] = None THEN None
        ELSE Some(pcf_read_compressed_metrics(Clamp(pcf_MetricsCursor(Unwrap(idx[i])))))]

pcf_BitmapOffsetCursor(index) == AddWrapI32(metadata.bitmap_offset_offsets, 4 * index)

pcf_load_bitmap_offset_steps(index) ==
    IF index = None THEN << >>
    ELSE LET c == pcf_BitmapOffsetCursor(Unwrap(index))
         IN  << <<"check", build = "release"
                             \/ AddFitsI32(metadata.bitmap_offset_offsets,
                                           4 * Unwrap(index)), "overflow">>,
                <<"check", c >= 0, "unwrap">>,
                <<"read", c, 4>> >>

\* read_u32(..) as i32
pcf_load_bitmap_offsets(cps, idx) ==
    [i \in 1 .. Len(cps) |->
        IF idx[i] = None THEN None
        ELSE Some(BigEndian_read_i32(pcf_BitmapOffsetCursor(Unwrap(idx[i]))))]

\* width and height in u8 arithmetic
pcf_GlyphWidth(metrics) == (metrics.right_side_bearing - metrics.left_side_bearing) % 256
pcf_GlyphHeight(metrics) == (metrics.character_ascent + metrics.character_descent) % 256

pcf_size_steps(metrics) ==
    << <<"check", build = "release"
                    \/ metrics.right_side_bearing >= metrics.left_side_bearing,
         "overflow">>,
       <<"check", build = "release"
                    \/ metrics.character_ascent + metrics.character_descent <= 255,
         "overflow">> >>

pcf_create_glyph(code_point, metrics) ==
    [bitmap     |-> [i \in 1 .. (pcf_GlyphWidth(metrics) * pcf_GlyphHeight(metrics)) |-> 0],
     code_point |-> code_point,
     encoding   |-> char_from_u32(code_point),
     width      |-> pcf_GlyphWidth(metrics),
     height     |-> pcf_GlyphHeight(metrics),
     dx         |-> metrics.left_side_bearing,
     dy         |-> 0 - metrics.character_descent,
     shift_x    |-> metrics.character_width,
     shift_y    |-> 0,
     tile_index |-> 0]

RECURSIVE pcf_create_glyphs(_, _, _, _)
pcf_create_glyphs(cps, mets, i, gs) ==
    IF i > Len(cps) THEN gs
    ELSE pcf_create_glyphs(cps, mets, i + 1,
             IF mets[i] = None THEN gs
             ELSE HashMapInsert(gs, cps[i], pcf_create_glyph(cps[i], Unwrap(mets[i]))))

pcf_GlyphBitmapOffset(bitmap_offset) ==
    AddWrapI32(metadata.first_bitmap_offset, bitmap_offset)

\* the fill loop reads self.bytes[offset + bytes_per_row * y] for every x
pcf_fill_steps(metrics, bitmap_offset) ==
    LET offset == pcf_GlyphBitmapOffset(bitmap_offset)
        width  == pcf_GlyphWidth(metrics)
        height == pcf_GlyphHeight(metrics)
    IN  << <<"check", build = "release"
                        \/ AddFitsI32(metadata.first_bitmap_offset, bitmap_offset),
             "overflow">>,
           <<"check", offset >= 0, "unwrap">> >>
        \o pcf_size_steps(metrics)
        \o (IF width = 0 THEN << >>
            ELSE [y \in 1 .. height |->
                     <<"read", UAdd(offset, BytesPerRow(width) * (y - 1)), 1>>])

pcf_fill_glyph(glyph, offset) ==
    [glyph EXCEPT !.bitmap =
        [i \in 1 .. (glyph.width * glyph.height) |->
            LET y    == (i - 1) \div glyph.width
                x    == (i - 1) % glyph.width
                idx  == offset + BytesPerRow(glyph.width) * y
                on   == BitAnd(Byte(idx), PixelMask(x)) # 0
            IN  IF on THEN 1 ELSE glyph.bitmap[i]]]

RECURSIVE pcf_fill_glyphs(_, _, _, _, _)
pcf_fill_glyphs(cps, mets, offs, i, gs) ==
    IF i > Len(cps) THEN gs
    ELSE pcf_fill_glyphs(cps, mets, offs, i + 1,
             IF mets[i] = None THEN gs
             ELSE [gs EXCEPT ![cps[i]] =
                      pcf_fill_glyph(gs[cps[i]],
                                     Clamp(pcf_GlyphBitmapOffset(Unwrap(offs[i]))))])

\* the code points load_glyphs works on: those not loaded yet
RECURSIVE pcf_NotLoadedFrom(_, _)
pcf_NotLoadedFrom(code_points, i) ==
    IF i > Len(code_points) THEN << >>
    ELSE (IF code_points[i] \in DOMAIN glyphs THEN << >> ELSE <<code_points[i]>>)
         \o pcf_NotLoadedFrom(code_points, i + 1)

\* pcf_NotLoaded without the contains_key filter
pcf_NotLoaded_unfiltered(code_points) == code_points

pcf_NotLoaded(code_points) == pcf_NotLoadedFrom(code_points, 1)

pcf_load_glyphs_steps(code_points) ==
    LET cps  == pcf_NotLoaded(code_points)
        idx  == pcf_load_indices(cps)
        mets == pcf_load_all_metrics(cps, idx)
        offs == pcf_load_bitmap_offsets(cps, idx)
    IN  IF cps = << >> THEN << >>
        ELSE Flatten([i \in 1 .. Len(cps) |-> pcf_load_index_steps(cps[i])], 1)
             \o << <<"check", metadata.is_metrics_compressed, "unimplemented">> >>
             \o Flatten([i \in 1 .. Len(cps) |-> pcf_load_metrics_steps(idx[i])], 1)
             \o Flatten([i \in 1 .. Len(cps) |-> pcf_load_bitmap_offset_steps(idx[i])], 1)
             \o Flatten([i \in 1 .. Len(cps) |->
                            IF mets[i] = None THEN << >>
                            ELSE pcf_size_steps(Unwrap(mets[i]))], 1)
             \o Flatten([i \in 1 .. Len(cps) |->
                            IF mets[i] = None THEN << >>
                            ELSE pcf_fill_steps(Unwrap(mets[i]), Unwrap(offs[i]))], 1)

pcf_load_glyphs(code_points) ==
    LET cps  == pcf_NotLoaded(code_points)
        idx  == pcf_load_indices(cps)
        mets == pcf_load_all_metrics(cps, idx)
        offs == pcf_load_bitmap_offsets(cps, idx)
    IN  IF cps = << >> THEN glyphs
        ELSE pcf_fill_glyphs(cps, mets, offs, 1, pcf_create_glyphs(cps, mets, 1, glyphs))

-----------------------------------------------------------------------------
(* PcfFont::new, one action per call it makes.  A failed read, check or    *)
(* conversion ends the run in "panic" with the kind of failure in err.     *)

InitDecoder ==
    /\ pos = 0
    /\ tables = << >>
    /\ accelerators = DefaultAccelerators
    /\ encoding = DefaultEncoding
    /\ bitmap = DefaultBitmap
    /\ bounding_box = DefaultBoundingBox
    /\ metadata = DefaultMetadata
    /\ indices = << >>
    /\ all_metrics = << >>
    /\ bitmap_offsets = << >>
    /\ glyphs = << >>
    /\ err = ""
    /\ hi = 0
    /\ wrapped = FALSE

Init ==
    /\ \E d \in Fonts : bytes = Image(d)
    /\ build \in Builds
    /\ pc = "header"
    /\ InitDecoder
    /\ filter = None
    /\ font = NoFont
    /\ lookup = NoLookup
    /\ requests = << >>
    /\ previous = None
    /\ calls = << >>

\* r is the outcome of the stage's reads and checks
Advance(r, next) ==
    /\ err' = r.err
    /\ hi' = r.hi
    /\ pc' = IF r.err = "" THEN next ELSE "panic"

Header ==
    /\ pc = "header"
    /\ LET r == Run(header_steps)
       IN  /\ Advance(r, "read_tables")
           /\ pos' = IF r.err = "" THEN pos + 4 ELSE pos
    /\ UNCHANGED emitted_vars
    /\ UNCHANGED <<bytes, build, tables, accelerators, encoding, bitmap, bounding_box,
                   metadata, indices, all_metrics, bitmap_offsets, glyphs, wrapped>>

ReadTables ==
    /\ pc = "read_tables"
    /\ LET r == Run(read_tables_steps)
       IN  /\ Advance(r, "read_accelerators")
           /\ tables' = IF r.err = "" THEN read_tables ELSE tables
           /\ pos' = IF r.err = "" THEN pos + 4 + 16 * Max(0, table_count_value)
                     ELSE pos
    /\ UNCHANGED emitted_vars
    /\ UNCHANGED <<bytes, build, accelerators, encoding, bitmap, bounding_box,
                   metadata, indices, all_metrics, bitmap_offsets, glyphs, wrapped>>

ReadAccelerators ==
    /\ pc = "read_accelerators"
    /\ LET r == Run(read_accelerators_steps)
       IN  /\ Advance(r, "read_encoding")
           /\ accelerators' = IF r.err = "" THEN read_accelerators ELSE accelerators
    /\ UNCHANGED emitted_vars
    /\ UNCHANGED <<bytes, build, pos, tables, encoding, bitmap, bounding_box,
                   metadata, indices, all_metrics, bitmap_offsets, glyphs, wrapped>>

ReadEncoding ==
    /\ pc = "read_encoding"
    /\ LET r == Run(read_encoding_steps)
       IN  /\ Advance(r, "read_bitmap")
           /\ encoding' = IF r.err = "" THEN read_encoding ELSE encoding
    /\ UNCHANGED emitted_vars
    /\ UNCHANGED <<bytes, build, pos, tables, accelerators, bitmap, bounding_box,
                   metadata, indices, all_metrics, bitmap_offsets, glyphs, wrapped>>

ReadBitmap ==
    /\ pc = "read_bitmap"
    /\ LET r == Run(read_bitmap_steps)
       IN  /\ Advance(r, "get_bounding_box")
           /\ bitmap' = IF r.err = "" THEN read_bitmap ELSE bitmap
           /\ wrapped' = (wrapped \/ (r.err = "" /\ BitmapCursors.skip.overflow))
    /\ UNCHANGED emitted_vars
    /\ UNCHANGED <<bytes, build, pos, tables, accelerators, encoding, bounding_box,
                   metadata, indices, all_metrics, bitmap_offsets, glyphs>>

GetBoundingBox ==
    /\ pc = "get_bounding_box"
    /\ LET r == Run(get_bounding_box_steps)
       IN  /\ Advance(r, "load_metadata")
           /\ bounding_box' = IF r.err = "" THEN get_bounding_box ELSE bounding_box
    /\ UNCHANGED emitted_vars
    /\ UNCHANGED <<bytes, build, pos, tables, accelerators, encoding, bitmap,
                   metadata, indices, all_metrics, bitmap_offsets, glyphs, wrapped>>

LoadMetadata ==
    /\ pc = "load_metadata"
    /\ LET r == Run(load_metadata_steps)
       IN  /\ Advance(r, "load_glyph_indices")
           /\ metadata' = IF r.err = "" THEN load_metadata ELSE metadata
    /\ UNCHANGED emitted_vars
    /\ UNCHANGED <<bytes, build, pos, tables, accelerators, encoding, bitmap,
                   bounding_box, indices, all_metrics, bitmap_offsets, glyphs, wrapped>>

\* load_glyphs stops after the indices when the metrics are uncompressed
LoadGlyphIndices ==
    /\ pc = "load_glyph_indices"
    /\ LET r == Run(load_glyph_indices_steps \o
                    << <<"check", metadata.is_metrics_compressed, "unimplemented">> >>)
       IN  /\ Advance(r, "load_all_metrics")
           /\ indices' = IF r.err \in {"", "unimplemented"} THEN load_glyph_indices
                         ELSE indices
    /\ UNCHANGED emitted_vars
    /\ UNCHANGED <<bytes, build, pos, tables, accelerators, encoding, bitmap,
                   bounding_box, metadata, all_metrics, bitmap_offsets, glyphs, wrapped>>

LoadAllMetrics ==
    /\ pc = "load_all_metrics"
    /\ \E ord \in Orders(DOMAIN indices) :
         LET r == Run(load_all_metrics_steps(ord))
         IN  /\ Advance(r, "load_bitmap_offsets")
             /\ all_metrics' = IF r.err = "" THEN load_all_metrics(ord) ELSE all_metrics
    /\ UNCHANGED emitted_vars
    /\ UNCHANGED <<bytes, build, pos, tables, accelerators, encoding, bitmap,
                   bounding_box, metadata, indices, bitmap_offsets, glyphs, wrapped>>

LoadBitmapOffsets ==
    /\ pc = "load_bitmap_offsets"
    /\ \E ord \in Orders(DOMAIN indices) :
         LET r == Run(load_bitmap_offsets_steps(ord))
         IN  /\ Advance(r, "create_glyphs")
             /\ bitmap_offsets' = IF r.err = "" THEN load_bitmap_offsets(ord)
                                  ELSE bitmap_offsets
    /\ UNCHANGED emitted_vars
    /\ UNCHANGED <<bytes, build, pos, tables, accelerators, encoding, bitmap,
                   bounding_box, metadata, indices, all_metrics, glyphs, wrapped>>

CreateGlyphs ==
    /\ pc = "create_glyphs"
    /\ \E ord \in Orders(DOMAIN all_metrics) :
         LET r == Run(create_glyphs_steps(ord))
         IN  /\ Advance(r, "fill_glyph_bitmaps")
             /\ glyphs' = IF r.err = "" THEN create_glyphs(ord) ELSE glyphs
    /\ UNCHANGED emitted_vars
    /\ UNCHANGED <<bytes, build, pos, tables, accelerators, encoding, bitmap,
                   bounding_box, metadata, indices, all_metrics, bitmap_offsets, wrapped>>

\* self.glyphs is assigned only when every glyph has been filled
FillGlyphBitmaps ==
    /\ pc = "fill_glyph_bitmaps"
    /\ \E ord \in Orders(DOMAIN glyphs) :
         LET r == Run(fill_glyph_bitmaps_steps(ord))
         IN  /\ Advance(r, "decoded")
             /\ glyphs' = IF r.err = "" THEN fill_glyph_bitmaps(ord) ELSE glyphs
    /\ UNCHANGED emitted_vars
    /\ UNCHANGED <<bytes, build, pos, tables, accelerators, encoding, bitmap,
                   bounding_box, metadata, indices, all_metrics, bitmap_offsets, wrapped>>

\* the ranges a use of the macro may name: one character or from ..= to
Range(from, to) == [from |-> from, to |-> to]

Filters ==
    { None,
      Some(<< Range(65, None) >>),
      Some(<< Range(65, Some(66)) >>),
      Some(<< Range(SPACE, Some(126)) >>),
      Some(<< Range(SPACE, None), Range(REPLACEMENT_CHARACTER, None) >>),
      Some(<< Range(REPLACEMENT_CHARACTER, None) >>),
      Some(<< Range(48, Some(57)) >>),
      Some(<< Range(66, Some(65)), Range(67, None) >>) }

LookupChars == {SPACE, 48, 65, 66, 67, 321, REPLACEMENT_CHARACTER}

\* include_pcf!(file, ranges) once PcfFont::new has returned
IncludePcf ==
    /\ pc = "decoded"
    /\ \E character_ranges \in Filters, ord \in Orders(DOMAIN glyphs) :
         /\ filter' = character_ranges
         /\ font' = include_pcf(ord, character_ranges)
    /\ pc' = "included"
    /\ UNCHANGED <<decoder_fields, err, hi, wrapped, lookup, requests, previous, calls>>

\* font.get_glyph(c) on the emitted font
GetGlyph ==
    /\ pc = "included"
    /\ \E c \in LookupChars :
         LET r == Run(get_glyph_steps(font, c))
         IN  /\ Advance(r, "looked_up")
             /\ lookup' = [c |-> c,
                           result |-> IF r.err = "" THEN Some(get_glyph(font, c))
                                      ELSE None]
    /\ UNCHANGED <<decoder_fields, wrapped, filter, font, requests, previous, calls>>

Next ==
    \/ Header
    \/ ReadTables
    \/ ReadAccelerators
    \/ ReadEncoding
    \/ ReadBitmap
    \/ GetBoundingBox
    \/ LoadMetadata
    \/ LoadGlyphIndices
    \/ LoadAllMetrics
    \/ LoadBitmapOffsets
    \/ CreateGlyphs
    \/ FillGlyphBitmaps
    \/ IncludePcf
    \/ GetGlyph

vars == <<decoder_vars, emitted_vars>>

Spec == Init /\ [][Next]_vars

-----------------------------------------------------------------------------
(* PcfFont::new called once more on the same buffer                        *)

Returned == [bounding_box |-> bounding_box, glyphs |-> glyphs]

NewAgain ==
    /\ pc = "decoded"
    /\ previous = None
    /\ previous' = Some(Returned)
    /\ pc' = "header"
    /\ pos' = 0
    /\ tables' = << >>
    /\ accelerators' = DefaultAccelerators
    /\ encoding' = DefaultEncoding
    /\ bitmap' = DefaultBitmap
    /\ bounding_box' = DefaultBoundingBox
    /\ metadata' = DefaultMetadata
    /\ indices' = << >>
    /\ all_metrics' = << >>
    /\ bitmap_offsets' = << >>
    /\ glyphs' = << >>
    /\ err' = ""
    /\ hi' = 0
    /\ wrapped' = FALSE
    /\ UNCHANGED <<bytes, build, filter, font, lookup, requests, calls>>

NextAgain ==
    \/ Header
    \/ ReadTables
    \/ ReadAccelerators
    \/ ReadEncoding
    \/ ReadBitmap
    \/ GetBoundingBox
    \/ LoadMetadata
    \/ LoadGlyphIndices
    \/ LoadAllMetrics
    \/ LoadBitmapOffsets
    \/ CreateGlyphs
    \/ FillGlyphBitmaps
    \/ NewAgain

SpecAgain == Init /\ [][NextAgain]_vars

-----------------------------------------------------------------------------
(* header() and table_count() called on the font PcfFont::new returned     *)

MaxReads == 3

\* One call of header() or of table_count(): either is a read_i32 through
\* the Cursor, at its position, which moves on by 4.
CallAccessor ==
    /\ pc = "decoded"
    /\ Len(calls) < MaxReads
    /\ \E fn \in {"header", "table_count"} :
         LET r == Run(header_steps)
             value == IF fn = "header" THEN header_value ELSE table_count_value
         IN  /\ Advance(r, "decoded")
             /\ pos' = IF r.err = "" THEN pos + 4 ELSE pos
             /\ calls' = IF r.err = "" THEN Append(calls, [fn |-> fn, result |-> value])
                         ELSE calls
    /\ UNCHANGED <<bytes, build, tables, accelerators, encoding, bitmap, bounding_box,
                   metadata, indices, all_metrics, bitmap_offsets, glyphs, wrapped,
                   filter, font, lookup, requests, previous>>

NextReads ==
    \/ Header
    \/ ReadTables
    \/ ReadAccelerators
    \/ ReadEncoding
    \/ ReadBitmap
    \/ GetBoundingBox
    \/ LoadMetadata
    \/ LoadGlyphIndices
    \/ LoadAllMetrics
    \/ LoadBitmapOffsets
    \/ CreateGlyphs
    \/ FillGlyphBitmaps
    \/ CallAccessor

SpecReads == Init /\ [][NextReads]_vars

-----------------------------------------------------------------------------
(* Glyph::pixel called on a glyph of the font PcfFont::new returned.  The  *)
(* crate defines Glyph twice, with the same fields: in lib.rs, and in      *)
(* glyph.rs, whose pixel() prints its arguments and answers true.          *)

MaxPixelCalls == 1

\* Glyph::pixel of glyph.rs
glyph_rs_Glyph_pixel(glyph, x, y) == TRUE

GlyphDefinitions == {"lib.rs", "glyph.rs"}

\* glyph.pixel(x, y) for a pixel of the glyph, 0 <= x < width, 0 <= y < height
GlyphPixel ==
    /\ pc = "decoded"
    /\ Len(calls) < MaxPixelCalls
    /\ \E def \in GlyphDefinitions, cp \in DOMAIN glyphs :
         \E x \in 0 .. (glyphs[cp].bounding_box.size.x - 1),
            y \in 0 .. (glyphs[cp].bounding_box.size.y - 1) :
              calls' = Append(calls,
                  [fn |-> "pixel", def |-> def, code_point |-> cp, x |-> x, y |-> y,
                   result |-> IF def = "lib.rs" THEN Glyph_pixel(glyphs[cp], x, y)
                              ELSE glyph_rs_Glyph_pixel(glyphs[cp], x, y)])
    /\ UNCHANGED <<decoder_vars, filter, font, lookup, requests, previous>>

NextPixel ==
    \/ Header
    \/ ReadTables
    \/ ReadAccelerators
    \/ ReadEncoding
    \/ ReadBitmap
    \/ GetBoundingBox
    \/ LoadMetadata
    \/ LoadGlyphIndices
    \/ LoadAllMetrics
    \/ LoadBitmapOffsets
    \/ CreateGlyphs
    \/ FillGlyphBitmaps
    \/ GlyphPixel

SpecPixel == Init /\ [][NextPixel]_vars

-----------------------------------------------------------------------------
(* eg-pcf text.rs: PcfTextStyle::draw_string and measure_string on an      *)
(* eg_pcf::PcfFont.  A u32 is held here as the i32 of the same 32 bits     *)
(* (2^32 - 1 as -1), so that `as i32` is the identity and sums stay inside *)
(* the integers of the model checker.  The draw target never errors and    *)
(* its pixels are not part of the state.                                   *)

MaxDraws == 2

\* a + b in u32 does not overflow
AddFitsU32(a, b) ==
    IF a >= 0 /\ b >= 0 THEN TRUE
    ELSE IF a < 0 /\ b < 0 THEN FALSE
    ELSE a + b < 0

\* position after the first n characters of the text: position.x +=
\* glyph.device_width as i32, once per character
RECURSIVE draw_string_x(_, _, _)
draw_string_x(text, x, n) ==
    IF n = 0 THEN x
    ELSE AddWrapI32(draw_string_x(text, x, n - 1), get_glyph(font, text[n]).device_width)

draw_string_steps(text, position) ==
    Flatten([n \in 1 .. Len(text) |->
                get_glyph_steps(font, text[n]) \o
                << <<"check",
                     build = "release"
                       \/ AddFitsI32(draw_string_x(text, position.x, n - 1),
                                     get_glyph(font, text[n]).device_width),
                     "overflow">> >>], 1)

draw_string(text, position) ==
    [x |-> draw_string_x(text, position.x, Len(text)), y |-> position.y]

\* glyphs.clone().map(|g| g.device_width).sum() over the first n characters
RECURSIVE measure_string_dx(_, _)
measure_string_dx(text, n) ==
    IF n = 0 THEN 0
    ELSE AddWrapI32(measure_string_dx(text, n - 1), get_glyph(font, text[n]).device_width)

\* glyphs.map(|g| g.bounding_box.size.height).max().unwrap_or(0)
measure_string_height(text) ==
    LET heights == {get_glyph(font, text[n]).bounding_box.size.height : n \in 1 .. Len(text)}
    IN  IF heights = {} THEN 0 ELSE CHOOSE h \in heights : \A k \in heights : k <= h

\* the sum panics on overflow in a debug build; position + Size::new(dx, 0)
\* is embedded-graphics' Add<Size> for Point, which debug-asserts that the
\* width as i32 is not negative and then adds in i32
measure_string_steps(text, position) ==
    Flatten([n \in 1 .. Len(text) |->
                get_glyph_steps(font, text[n]) \o
                << <<"check",
                     build = "release"
                       \/ AddFitsU32(measure_string_dx(text, n - 1),
                                     get_glyph(font, text[n]).device_width),
                     "overflow">> >>], 1)
    \o << <<"check", build = "release" \/ measure_string_dx(text, Len(text)) >= 0, "assert">>,
          <<"check",
            build = "release"
              \/ AddFitsI32(position.x, measure_string_dx(text, Len(text))),
            "overflow">> >>

measure_string(text, position) ==
    LET dx == measure_string_dx(text, Len(text))
    IN  [bounding_box  |-> [top_left |-> position,
                            size |-> [width |-> dx, height |-> measure_string_height(text)]],
         next_position |-> [x |-> AddWrapI32(position.x, dx), y |-> position.y]]

\* a PcfGlyph as include_pcf emits it
PcfGlyph(character, device_width, start_index, width, height) ==
    [character    |-> character,
     bounding_box |-> [top_left |-> [x |-> 0, y |-> (0 - height) - 1],
                       size     |-> [width |-> width, height |-> height]],
     device_width |-> device_width,
     start_index  |-> start_index]

\* fonts with a glyph or more and a replacement index inside the glyph list;
\* device_width is shift_x as u32, so the second font's 'A', of character
\* width -1, has device_width 2^32 - 1
TextFonts ==
    { [glyphs |-> << PcfGlyph(65, 8, 0, 7, 2), PcfGlyph(66, 12, 14, 11, 2) >>,
       data |-> <<170, 170, 170, 170, 160>>, line_height |-> 9, replacement_character |-> 0],
      [glyphs |-> << PcfGlyph(65, 0 - 1, 0, 2, 1), PcfGlyph(66, 4, 2, 3, 2) >>,
       data |-> <<170>>, line_height |-> 9, replacement_character |-> 1],
      [glyphs |-> << PcfGlyph(SPACE, 3, 0, 0, 0) >>,
       data |-> << >>, line_height |-> 9, replacement_character |-> 0],
      [glyphs |-> << PcfGlyph(65, 127, 0, 4, 1), PcfGlyph(REPLACEMENT_CHARACTER, 0, 4, 2, 3) >>,
       data |-> <<170, 128>>, line_height |-> 9, replacement_character |-> 1] }

Texts == { << >>, <<65>>, <<65, 66>>, <<67>>, <<65, 65>>, <<66, 65, 67>> }

Positions == { [x |-> 0, y |-> 0], [x |-> 0 - 5, y |-> 7], [x |-> USat - 10, y |-> 3] }

\* a PcfTextStyle over one of the fonts; no font file is being decoded
InitText ==
    /\ bytes = [len |-> 0, data |-> << >>]
    /\ build \in Builds
    /\ pc = "styled"
    /\ InitDecoder
    /\ filter = None
    /\ font \in TextFonts
    /\ lookup = NoLookup
    /\ requests = << >>
    /\ previous = None
    /\ calls = << >>

\* style.draw_string(text, position, baseline, target)
DrawString ==
    /\ pc = "styled"
    /\ Len(calls) < MaxDraws
    /\ \E text \in Texts, position \in Positions :
         LET r == Run(draw_string_steps(text, position))
         IN  /\ Advance(r, "styled")
             /\ calls' = Append(calls,
                    [fn |-> "draw_string", text |-> text, position |-> position,
                     result |-> IF r.err = "" THEN Some(draw_string(text, position))
                                ELSE None])
    /\ UNCHANGED <<decoder_fields, wrapped, filter, font, lookup, requests, previous>>

\* style.measure_string(text, position, baseline)
MeasureString ==
    /\ pc = "styled"
    /\ Len(calls) < MaxDraws
    /\ \E text \in Texts, position \in Positions :
         LET r == Run(measure_string_steps(text, position))
         IN  /\ Advance(r, "styled")
             /\ calls' = Append(calls,
                    [fn |-> "measure_string", text |-> text, position |-> position,
                     result |-> IF r.err = "" THEN Some(measure_string(text, position))
                                ELSE None])
    /\ UNCHANGED <<decoder_fields, wrapped, filter, font, lookup, requests, previous>>

NextText == DrawString \/ MeasureString

SpecText == InitText /\ [][NextText]_vars

-----------------------------------------------------------------------------
(* pcf.rs: PcfFont::new, then calls of load_glyphs                         *)

MaxCalls == 2

Requests ==
    { << >>, <<65>>, <<66>>, <<65, 66>>, <<66, 65, 65>>, <<67>>, <<66 + 256>>,
      <<65 + 65536>>, <<0 - 1>>, <<65 - 65536>> }

InitOD ==
    /\ \E d \in Fonts : bytes = Image(d)
    /\ build \in Builds
    /\ pc = "pcf_read_tables"
    /\ InitDecoder
    /\ filter = None
    /\ font = NoFont
    /\ lookup = NoLookup
    /\ requests = << >>
    /\ previous = None
    /\ calls = << >>

PcfReadTables ==
    /\ pc = "pcf_read_tables"
    /\ LET r == Run(pcf_read_tables_steps)
       IN  /\ Advance(r, "pcf_read_accelerators")
           /\ tables' = IF r.err = "" THEN pcf_read_tables ELSE tables
    /\ UNCHANGED emitted_vars
    /\ UNCHANGED <<bytes, build, pos, accelerators, encoding, bitmap, bounding_box,
                   metadata, indices, all_metrics, bitmap_offsets, glyphs, wrapped>>

PcfReadAccelerators ==
    /\ pc = "pcf_read_accelerators"
    /\ LET r == Run(pcf_read_accelerators_steps)
       IN  /\ Advance(r, "pcf_read_encoding")
           /\ accelerators' = IF r.err = "" THEN pcf_read_accelerators ELSE accelerators
    /\ UNCHANGED emitted_vars
    /\ UNCHANGED <<bytes, build, pos, tables, encoding, bitmap, bounding_box,
                   metadata, indices, all_metrics, bitmap_offsets, glyphs, wrapped>>

PcfReadEncoding ==
    /\ pc = "pcf_read_encoding"
    /\ LET r == Run(pcf_read_encoding_steps)
       IN  /\ Advance(r, "pcf_read_bitmap")
           /\ encoding' = IF r.err = "" THEN pcf_read_encoding ELSE encoding
    /\ UNCHANGED emitted_vars
    /\ UNCHANGED <<bytes, build, pos, tables, accelerators, bitmap, bounding_box,
                   metadata, indices, all_metrics, bitmap_offsets, glyphs, wrapped>>

PcfReadBitmap ==
    /\ pc = "pcf_read_bitmap"
    /\ LET r == Run(pcf_read_bitmap_steps)
       IN  /\ Advance(r, "pcf_get_bounding_box")
           /\ bitmap' = IF r.err = "" THEN pcf_read_bitmap ELSE bitmap
           /\ wrapped' = (wrapped \/ (r.err = "" /\ BitmapCursors.skip.overflow))
    /\ UNCHANGED emitted_vars
    /\ UNCHANGED <<bytes, build, pos, tables, accelerators, encoding, bounding_box,
                   metadata, indices, all_metrics, bitmap_offsets, glyphs>>

PcfGetBoundingBox ==
    /\ pc = "pcf_get_bounding_box"
    /\ LET r == Run(pcf_get_bounding_box_steps)
       IN  /\ Advance(r, "pcf_load_metadata")
           /\ bounding_box' = IF r.err = "" THEN pcf_get_bounding_box ELSE bounding_box
    /\ UNCHANGED emitted_vars
    /\ UNCHANGED <<bytes, build, pos, tables, accelerators, encoding, bitmap,
                   metadata, indices, all_metrics, bitmap_offsets, glyphs, wrapped>>

PcfLoadMetadata ==
    /\ pc = "pcf_load_metadata"
    /\ LET r == Run(pcf_load_metadata_steps)
       IN  /\ Advance(r, "pcf_ready")
           /\ metadata' = IF r.err = "" THEN pcf_load_metadata ELSE metadata
    /\ UNCHANGED emitted_vars
    /\ UNCHANGED <<bytes, build, pos, tables, accelerators, encoding, bitmap,
                   bounding_box, indices, all_metrics, bitmap_offsets, glyphs, wrapped>>

\* font.load_glyphs(code_points) on a font that new returned
PcfLoadGlyphs ==
    /\ pc = "pcf_ready"
    /\ Len(requests) < MaxCalls
    /\ \E code_points \in Requests :
         LET r == Run(pcf_load_glyphs_steps(code_points))
         IN  /\ Advance(r, "pcf_ready")
             /\ glyphs' = IF r.err = "" THEN pcf_load_glyphs(code_points) ELSE glyphs
             /\ requests' = Append(requests, code_points)
    /\ UNCHANGED <<bytes, build, pos, tables, accelerators, encoding, bitmap,
                   bounding_box, metadata, indices, all_metrics, bitmap_offsets,
                   wrapped, filter, font, lookup, previous, calls>>

NextOD ==
    \/ PcfReadTables
    \/ PcfReadAccelerators
    \/ PcfReadEncoding
    \/ PcfReadBitmap
    \/ PcfGetBoundingBox
    \/ PcfLoadMetadata
    \/ PcfLoadGlyphs

SpecOD == InitOD /\ [][NextOD]_vars

-----------------------------------------------------------------------------
(* Properties.  The arithmetic of the properties is written out here, from *)
(* the file format, and shares nothing with the decoders above.            *)

\* bit k (0 the least significant) of a byte is set
BitSet(byte, k) == (byte \div (2 ^ k)) % 2 = 1

CeilDiv(a, b) == (a \div b) + (IF a % b = 0 THEN 0 ELSE 1)

\* the big-endian 16-bit number at position p of the buffer
U16At(p) == 256 * Byte(p) + Byte(p + 1)

\* C1: after PcfFont::new of lib.rs, for every glyph of width w and height h
\* and every 0 <= y < h, 0 <= x < w, bitmap[y*w + x] is 1 iff bit 7 - x%8 of
\* the byte at bitmap_byte_offset + stride*y + x/8 is set, and 0 otherwise,
\* with stride = 4 * ceil(w / 32).
C1_WholeFontUnpacking ==
    pc = "decoded" =>
        \A cp \in DOMAIN glyphs :
            LET w      == glyphs[cp].bounding_box.size.x
                h      == glyphs[cp].bounding_box.size.y
                base   == metadata.first_bitmap_offset + bitmap_offsets[cp]
                stride == 4 * CeilDiv(w, 32)
            IN  \A y \in 0 .. (h - 1), x \in 0 .. (w - 1) :
                    glyphs[cp].bitmap[y * w + x + 1] =
                        IF BitSet(Byte(base + stride * y + (x \div 8)), 7 - (x % 8))
                        THEN 1 ELSE 0

\* a decoded glyph more than 32 pixels wide whose pixels beyond the first
\* byte, and beyond the first word, are partly on and partly off
C1_Witness ==
    /\ pc = "decoded"
    /\ \E cp \in DOMAIN glyphs :
           LET g == glyphs[cp]
           IN  /\ g.bounding_box.size.x = 33
               /\ g.bounding_box.size.y = 1
               /\ g.bitmap[33] = 1
               /\ \E x \in 8 .. 31 : g.bitmap[x + 1] = 1 /\ g.bitmap[x - 7] = 0
               /\ \E x \in 8 .. 31 : g.bitmap[x + 1] = 0 /\ g.bitmap[x - 7] = 1

\* C2: load_glyph_indices gives code point c of 0 ..= 0xFFFF an index iff
\* min_byte1 <= enc1 <= max_byte1, min_byte2 <= enc2 <= max_byte2 and the
\* big-endian u16 at indices_offset + 2 * ((enc1 - min_byte1) *
\* (max_byte2 - min_byte2 + 1) + (enc2 - min_byte2)) is not 65535; the index
\* is that u16.  A code point with a byte out of range has no index.
C2_GlyphIndexResolution ==
    pc = "load_all_metrics" =>
        \A c \in CodePoints :
            LET enc1  == (c \div 256) % 256
                enc2  == c % 256
                inside == /\ encoding.min_byte1 <= enc1 /\ enc1 <= encoding.max_byte1
                          /\ encoding.min_byte2 <= enc2 /\ enc2 <= encoding.max_byte2
                entry == metadata.indices_offset
                           + 2 * ((enc1 - encoding.min_byte1)
                                    * (encoding.max_byte2 - encoding.min_byte2 + 1)
                                  + (enc2 - encoding.min_byte2))
            IN  IF inside /\ U16At(entry) # U16_MAX
                THEN c \in DOMAIN indices /\ indices[c] = U16At(entry)
                ELSE c \notin DOMAIN indices

\* an encoding of two rows in which a code point of the second row has index
\* 0, one in range has the entry 65535, and one lies outside the columns
C2_Witness ==
    /\ pc = "load_all_metrics"
    /\ encoding.max_byte1 > encoding.min_byte1
    /\ encoding.max_byte2 > encoding.min_byte2
    /\ \E c \in DOMAIN indices : c >= 256 /\ indices[c] = 0
    /\ \E c \in IndexReads : c \notin DOMAIN indices
    /\ 256 + encoding.max_byte2 + 1 \notin DOMAIN indices

\* C3: the on-demand decoder (pcf.rs load_glyphs) unpacks by the same formula
\* for any width, widths above 8 included: bitmap[y*w + x] is 1 iff bit
\* (7 - x%8) of the byte at first_bitmap_offset + bitmap_offset
\* + 4*ceil(w/32)*y + x/8 is set, and 0 otherwise.
C3_OnDemandUnpacking ==
    pc = "pcf_ready" =>
        \A cp \in DOMAIN glyphs :
            LET g      == glyphs[cp]
                w      == g.width
                h      == g.height
                cols   == encoding.max_byte2 - encoding.min_byte2 + 1
                entry  == metadata.indices_offset
                            + 2 * ((((cp \div 256) % 256) - encoding.min_byte1) * cols
                                    + ((cp % 256) - encoding.min_byte2))
                slot   == metadata.bitmap_offset_offsets + 4 * U16At(entry)
                base   == metadata.first_bitmap_offset + BigEndian_read_i32(slot)
                stride == 4 * CeilDiv(w, 32)
            IN  \A y \in 0 .. (h - 1), x \in 0 .. (w - 1) :
                    g.bitmap[y * w + x + 1] =
                        IF BitSet(Byte(base + stride * y + (x \div 8)), 7 - (x % 8))
                        THEN 1 ELSE 0

\* where glyph g of the emitted font sits in font.glyphs (from 1)
Places(c) == {i \in 1 .. Len(font.glyphs) : font.glyphs[i].character = c}

\* C4: for every glyph g of a font emitted by include_pcf, get_glyph(g.character)
\* returns exactly g: the same character, bounding box, device_width and
\* start_index.
C4_LookupRoundTrip ==
    /\ pc = "included" =>
           \A i \in 1 .. Len(font.glyphs) :
               /\ Run(get_glyph_steps(font, font.glyphs[i].character)).err = ""
               /\ get_glyph(font, font.glyphs[i].character) = font.glyphs[i]
    /\ pc \in {"looked_up", "panic"} =>
           \A i \in Places(lookup.c) : lookup.result = Some(font.glyphs[i])

\* get_glyph was asked for the character of a glyph that is neither the first
\* of the array nor the replacement glyph, and returned that glyph
C4_Witness ==
    /\ pc = "looked_up"
    /\ Len(font.glyphs) >= 3
    /\ \E i \in 2 .. Len(font.glyphs) :
           /\ i # font.replacement_character + 1
           /\ font.glyphs[i].character = lookup.c
           /\ lookup.result = Some(font.glyphs[i])

\* C5: for every font emitted by include_pcf, whatever the filter, and every
\* character c that no glyph has, get_glyph(c) returns
\* glyphs[replacement_character] and does not fail.
C5_FallbackNeverFails ==
    /\ pc = "included" =>
           \A c \in LookupChars :
               Places(c) = {} =>
                   /\ font.replacement_character < Len(font.glyphs)
                   /\ Run(get_glyph_steps(font, c)).err = ""
    /\ pc = "looked_up" /\ Places(lookup.c) = {} =>
           lookup.result = Some(font.glyphs[font.replacement_character + 1])
    /\ ~(pc = "panic" /\ err = "index")

\* C6: whatever the order in which the glyph table is iterated, the emitted
\* replacement_character is the index of the retained glyph for U+FFFD if
\* there is one, else the index of the retained glyph for the space if there
\* is one, else 0.
C6_ReplacementSelection ==
    pc = "included" =>
        /\ Places(REPLACEMENT_CHARACTER) # {} =>
               font.replacement_character + 1 \in Places(REPLACEMENT_CHARACTER)
        /\ Places(REPLACEMENT_CHARACTER) = {} /\ Places(SPACE) # {} =>
               font.replacement_character + 1 \in Places(SPACE)
        /\ Places(REPLACEMENT_CHARACTER) = {} /\ Places(SPACE) = {} =>
               font.replacement_character = 0
        /\ \A c \in {SPACE, REPLACEMENT_CHARACTER} :
               /\ Cardinality(Places(c)) <= 1
               /\ Places(c) # {} <=>
                      /\ c \in DOMAIN glyphs
                      /\ IncludePcf_contains(filter, c)

\* both glyphs are retained and the space comes after U+FFFD in the array
C6_Witness ==
    /\ pc = "included"
    /\ \E i \in Places(REPLACEMENT_CHARACTER), j \in Places(SPACE) :
           i < j /\ i > 1 /\ font.replacement_character = i - 1

\* bit k of the packed data, counting from the most significant bit of byte 0
DataBit(k) == BitSet(font.data[(k \div 8) + 1], 7 - (k % 8))

\* the number of pixels the emitted glyphs have together
RECURSIVE PixelCount(_)
PixelCount(n) ==
    IF n = 0 THEN 0
    ELSE PixelCount(n - 1)
           + glyphs[font.glyphs[n].character].bounding_box.size.x
               * glyphs[font.glyphs[n].character].bounding_box.size.y

\* C7: for every glyph emitted by include_pcf, of width w and height h, and
\* every 0 <= y < h, 0 <= x < w, bit start_index + y*w + x of the packed data
\* is 1 iff pixel (x, y) of the decoded glyph is on; the data has ceil(n/8)
\* bytes for the n bits, and the unused low bits of the last byte are zero.
C7_PackedBitstream ==
    pc = "included" =>
        LET n == PixelCount(Len(font.glyphs))
        IN  /\ \A i \in 1 .. Len(font.glyphs) :
                   LET g == glyphs[font.glyphs[i].character]
                       w == g.bounding_box.size.x
                       h == g.bounding_box.size.y
                   IN  /\ font.glyphs[i].start_index = PixelCount(i - 1)
                       /\ \A y \in 0 .. (h - 1), x \in 0 .. (w - 1) :
                              DataBit(font.glyphs[i].start_index + y * w + x)
                                  <=> g.bitmap[y * w + x + 1] # 0
            /\ Len(font.data) = CeilDiv(n, 8)
            /\ \A k \in n .. (8 * Len(font.data) - 1) : ~DataBit(k)

\* two glyphs or more, the second starting inside a byte, the bits not
\* filling the last byte, and pixels both on and off
C7_Witness ==
    /\ pc = "included"
    /\ Len(font.glyphs) >= 2
    /\ font.glyphs[2].start_index % 8 # 0
    /\ PixelCount(Len(font.glyphs)) % 8 # 0
    /\ \E b \in 1 .. Len(font.data) : font.data[b] \notin {0, FillByte}
    /\ font.data[Len(font.data)] # 0

\* C8: two runs of PcfFont::new on the same buffer give the same font
\* bounding box, the same glyph-table keys and, for every key, the same
\* Glyph; a run does not fail where the other returned.
C8_Determinism ==
    previous # None =>
        /\ pc # "panic"
        /\ pc = "decoded" => Unwrap(previous) = Returned

\* the second run has returned, for a font of three glyphs or more
C8_Witness ==
    /\ previous # None
    /\ pc = "decoded"
    /\ Cardinality(DOMAIN glyphs) >= 3
    /\ \E c \in DOMAIN glyphs : \E i \in DOMAIN glyphs[c].bitmap : glyphs[c].bitmap[i] = 1

\* C9: every byte PcfFont::new reads lies inside the buffer, and no font is
\* returned that has a field built from a wrapped-around offset.
C9_BoundsSafety ==
    /\ hi <= bytes.len
    /\ pc = "decoded" => ~wrapped

\* C10: a buffer whose first four bytes are not the magic number 1885562369
\* (little-endian) is not decoded into a font.
C10_MagicValidated ==
    pc = "decoded" => LittleEndian_read_i32(0) = PCF_MAGIC

\* the stages of PcfFont::new that come after the metrics-form test
AfterMetricsTest ==
    {"load_all_metrics", "load_bitmap_offsets", "create_glyphs", "fill_glyph_bitmaps",
     "decoded", "included", "looked_up"}

\* the format word the directory holds for the metrics table lacks bit 0x100
UncompressedMetricsDeclared ==
    /\ PCF_METRICS \in DOMAIN tables
    /\ ~BitSet(tables[PCF_METRICS].format, 8)

\* C11: when the format word of the metrics table (the word of its directory
\* record, which is the one the decoder consults) does not have the
\* compressed-metrics bit 0x100, PcfFont::new fails and returns no font, and
\* no metrics or glyph is decoded from the table.
C11_UncompressedMetricsRejected ==
    UncompressedMetricsDeclared =>
        /\ pc \notin AfterMetricsTest
        /\ all_metrics = << >>
        /\ glyphs = << >>

\* the decoder stopped at the metrics-form test, after the glyph indices
\* were resolved
C11_Witness ==
    /\ UncompressedMetricsDeclared
    /\ pc = "panic"
    /\ err = "unimplemented"
    /\ metadata.metrics_size = 12
    /\ Cardinality(DOMAIN indices) >= 2

\* C12: read_encoding decodes the five encoding fields only for a
\* BDF-encodings table whose format word is the default format (no format
\* bit from 0x100 up is set, the byte- and bit-order bits left aside); for
\* any other format word it fails.
C12_EncodingFormatChecked ==
    pc = "read_bitmap" =>
        LittleEndian_read_i32(tables[PCF_BDF_ENCODINGS].offset) \div 256 = 0

\* C13: a font is decoded, and its glyph rows unpacked with the 4-byte
\* stride, only when the low 2 bits of the bitmaps table's format word select
\* the 4-byte padding class (value 2); for the 1-, 2- and 8-byte classes
\* decoding fails.
C13_PaddingClassChecked ==
    pc = "decoded" /\ (\E c \in DOMAIN glyphs : Len(glyphs[c].bitmap) > 0) =>
        LittleEndian_read_i32(tables[PCF_BITMAPS].offset) % 4 = 2

\* C14: every glyph of the returned glyph table has width = right_side_bearing
\* - left_side_bearing and height = ascent + descent of its decoded metrics,
\* and neither is negative: a negative width or height makes decoding fail.
C14_GlyphGeometry ==
    pc = "decoded" =>
        \A c \in DOMAIN glyphs :
            LET m == all_metrics[c]
                size == glyphs[c].bounding_box.size
            IN  /\ size.x = m.right_side_bearing - m.left_side_bearing
                /\ size.y = m.character_ascent + m.character_descent
                /\ size.x >= 0
                /\ size.y >= 0

\* word k (0 type, 1 format, 2 size, 3 offset) of directory record i
DirWord(i, k) == LittleEndian_read_i32(8 + 16 * i + 4 * k)

\* the table count the header declares
DeclaredCount == LittleEndian_read_i32(4)

\* C15 as stated: for a buffer whose header declares table count N,
\* read_tables ingests exactly N 16-byte records and the mapping keyed by
\* type has exactly N entries.
C15_OneEntryPerRecord ==
    pc = "read_accelerators" /\ DeclaredCount >= 0 =>
        /\ hi = 8 + 16 * DeclaredCount
        /\ Cardinality(DOMAIN tables) = DeclaredCount

\* C15, amended: for a buffer whose header declares table count N,
\* read_tables, when it returns, has ingested exactly the N 16-byte records
\* (record i at bytes 8+16*i .. 8+16*i+16, as little-endian i32 type,
\* format, size, offset; none for N <= 0); the mapping has one entry per
\* distinct type among them, holding format, size and offset of the last
\* record of that type, hence exactly N entries when the N types are
\* pairwise distinct.
C15_TableDirectory ==
    pc = "read_accelerators" =>
        LET recs == 0 .. (DeclaredCount - 1)
        IN  /\ hi = 8 + 16 * Cardinality(recs)
            /\ DOMAIN tables = {DirWord(i, 0) : i \in recs}
            /\ \A i \in recs :
                   (\A j \in recs : j > i => DirWord(j, 0) # DirWord(i, 0)) =>
                       tables[DirWord(i, 0)] =
                           [format |-> DirWord(i, 1), size |-> DirWord(i, 2),
                            offset |-> DirWord(i, 3)]
            /\ (\A i, j \in recs : i # j => DirWord(i, 0) # DirWord(j, 0)) =>
                   Cardinality(DOMAIN tables) = Cardinality(recs)

\* five records were ingested, two of them of one type with different
\* offsets, and the mapping has four entries
C15_Witness ==
    /\ pc = "read_accelerators"
    /\ DeclaredCount = 5
    /\ Cardinality(DOMAIN tables) = 4
    /\ \E i, j \in 0 .. 4 :
           /\ i < j
           /\ DirWord(i, 0) = DirWord(j, 0)
           /\ DirWord(i, 3) # DirWord(j, 3)
           /\ tables[DirWord(i, 0)].offset = DirWord(j, 3)

\* C16: on a font value returned by PcfFont::new, header() returns the
\* little-endian i32 of buffer bytes 0..4 and table_count() the one of bytes
\* 4..8, whatever calls were made before and in whatever order; no call
\* fails or changes what a later call returns.
C16_AbsoluteHeaderReads ==
    /\ \A i \in 1 .. Len(calls) :
           calls[i].result = IF calls[i].fn = "header"
                             THEN LittleEndian_read_i32(0)
                             ELSE LittleEndian_read_i32(4)
    /\ calls # << >> => pc # "panic"

\* C17: for all 16-bit signed ink bounds get_bounding_box returns, as exact
\* 32-bit values, size = (ink_max.right_side_bearing -
\* ink_min.left_side_bearing, ink_max.character_ascent +
\* ink_max.character_descent) and offset = (ink_min.left_side_bearing,
\* -ink_max.character_descent), also when a difference, sum or negation
\* lies outside the 16-bit signed range.
C17_BoundingBoxExact ==
    LET lo == accelerators.ink_minbounds
        up == accelerators.ink_maxbounds
    IN  /\ pc = "get_bounding_box" => Run(get_bounding_box_steps).err = ""
        /\ pc = "load_metadata" =>
               /\ bounding_box.size.x = up.right_side_bearing - lo.left_side_bearing
               /\ bounding_box.size.y = up.character_ascent + up.character_descent
               /\ bounding_box.offset.x = lo.left_side_bearing
               /\ bounding_box.offset.y = 0 - up.character_descent

\* c is a Unicode scalar value
IsScalarValue(c) == (c >= 0 /\ c < 55296) \/ (c > 57343 /\ c <= 1114111)

\* C18: every glyph stored under key c in the glyph table has code_point = c,
\* encoding = Some(char) when c is a Unicode scalar value and None otherwise
\* (c in 0xD800..=0xDFFF), shift_x = the decoded character_width, shift_y =
\* 0, tile_index = 0 and bounding_box.offset = (left_side_bearing,
\* -character_descent).
C18_GlyphRecordFields ==
    pc \in {"fill_glyph_bitmaps", "decoded"} =>
        \A c \in DOMAIN glyphs :
            LET g == glyphs[c]
                m == all_metrics[c]
            IN  /\ g.code_point = c
                /\ g.encoding = IF IsScalarValue(c) THEN <<c>> ELSE << >>
                /\ g.shift_x = m.character_width
                /\ g.shift_y = 0
                /\ g.tile_index = 0
                /\ g.bounding_box.offset.x = m.left_side_bearing
                /\ g.bounding_box.offset.y = 0 - m.character_descent

\* a decoded table with a glyph under a surrogate code point, a glyph
\* beyond it, and a glyph of negative left side bearing and positive descent
C18_Witness ==
    /\ pc = "decoded"
    /\ \E c \in DOMAIN glyphs : c >= 55296 /\ c <= 57343 /\ glyphs[c].encoding = << >>
    /\ \E c \in DOMAIN glyphs : c > 57343 /\ glyphs[c].encoding = <<c>>
    /\ \E c \in DOMAIN glyphs :
           /\ glyphs[c].bounding_box.offset.x < 0
           /\ glyphs[c].bounding_box.offset.y < 0
           /\ glyphs[c].shift_x # glyphs[c].bounding_box.size.x

\* C19: read_compressed_metrics (lib.rs) decodes the five bytes b at cursor
\* + k, k = 0..4, whatever their value in 0..=255, to b - 0x80, a value in
\* -128..=127, in the order left side bearing, right side bearing,
\* character width, ascent, descent; attributes is 0; nothing but these five
\* bytes enters the result.
C19_CompressedMetricsDecode ==
    pc = "load_bitmap_offsets" =>
        \A c \in DOMAIN all_metrics :
            LET cur == metadata.first_metric_offset + 5 * indices[c]
                m   == all_metrics[c]
            IN  /\ m = [left_side_bearing    |-> Byte(cur) - 128,
                        right_side_bearing   |-> Byte(cur + 1) - 128,
                        character_width      |-> Byte(cur + 2) - 128,
                        character_ascent     |-> Byte(cur + 3) - 128,
                        character_descent    |-> Byte(cur + 4) - 128,
                        character_attributes |-> 0]
                /\ \A f \in {"left_side_bearing", "right_side_bearing", "character_width",
                             "character_ascent", "character_descent"} :
                       m[f] >= -128 /\ m[f] <= 127

\* metrics were decoded from the stored bytes 0 and 255, and from bytes on
\* both sides of 0x80
C19_Witness ==
    /\ pc = "load_bitmap_offsets"
    /\ \E c \in DOMAIN all_metrics :
           /\ all_metrics[c].left_side_bearing = -128
           /\ all_metrics[c].right_side_bearing = 127
    /\ \E c \in DOMAIN all_metrics :
           /\ all_metrics[c].left_side_bearing = -1
           /\ all_metrics[c].character_ascent = 1
           /\ all_metrics[c].character_width = 4

\* C20: in the on-demand decoder (pcf.rs) a stored metric byte of a valid
\* font, one below 0x80 (a negative metric such as left side bearing -1)
\* included, is decoded to stored - 0x80 without arithmetic overflow, and
\* load_glyphs yields dx = left side bearing, dy = -descent and width =
\* right side bearing - left side bearing as those signed values.
C20_OnDemandSignedMetrics ==
    pc = "pcf_ready" =>
        \A cp \in DOMAIN glyphs :
            LET cols  == encoding.max_byte2 - encoding.min_byte2 + 1
                entry == metadata.indices_offset
                           + 2 * ((((cp \div 256) % 256) - encoding.min_byte1) * cols
                                   + ((cp % 256) - encoding.min_byte2))
                cur   == metadata.first_metric_offset + 5 * U16At(entry)
                g     == glyphs[cp]
            IN  /\ g.dx = Byte(cur) - 128
                /\ g.dy = 0 - (Byte(cur + 4) - 128)
                /\ g.width = (Byte(cur + 1) - 128) - (Byte(cur) - 128)

\* the code points of 0 ..= 0xFFFF that glyph-index resolution gives an index
Resolvable ==
    {c \in CodePoints :
        LET enc1 == (c \div 256) % 256
            enc2 == c % 256
        IN  /\ encoding.min_byte1 <= enc1 /\ enc1 <= encoding.max_byte1
            /\ encoding.min_byte2 <= enc2 /\ enc2 <= encoding.max_byte2
            /\ U16At(metadata.indices_offset
                       + 2 * ((enc1 - encoding.min_byte1)
                                * (encoding.max_byte2 - encoding.min_byte2 + 1)
                              + (enc2 - encoding.min_byte2))) # U16_MAX}

\* C21: after PcfFont::new the keys of the glyph table are exactly the code
\* points of 0 ..= 0xFFFF that resolve to a glyph index: a code point that
\* resolves to none has no entry, every resolvable one has an entry.
C21_WholeFontCompleteness ==
    pc = "decoded" => DOMAIN glyphs = Resolvable

\* a returned font of two encoding rows with glyphs in both, an in-range
\* code point whose entry is 65535 and a code point outside the columns
C21_Witness ==
    /\ pc = "decoded"
    /\ \E c \in DOMAIN glyphs : c < 256
    /\ \E c \in DOMAIN glyphs : c >= 256
    /\ \E c \in IndexReads : c \notin DOMAIN glyphs
    /\ \E c \in CodePoints : c \notin IndexReads /\ c \notin DOMAIN glyphs
    /\ Cardinality(DOMAIN glyphs) >= 3

\* the big-endian 32-bit number at position p of the buffer (2^31 and more
\* are held as USat)
U32At(p) ==
    IF Byte(p) >= 128 THEN USat
    ELSE 16777216 * Byte(p) + 65536 * Byte(p + 1) + 256 * Byte(p + 2) + Byte(p + 3)

\* where the bitmaps table starts, and the glyph count it stores
BitmapsTableOffset == tables[PCF_BITMAPS].offset
BitmapsGlyphCount == U32At(BitmapsTableOffset + 4)

\* the first byte of the bitmap of the glyph with index i (usize sums, held
\* as USat from 2^31 - 1 on)
FirstBitmapByte(i) ==
    UAdd(UAdd(BitmapsTableOffset, UMul(4, UAdd(6, BitmapsGlyphCount))),
         U32At(BitmapsTableOffset + 8 + 4 * i))

\* one past the format word, the glyph count, the offset array of
\* glyph_count entries and the four size words
AfterSizeWords ==
    UAdd(BitmapsTableOffset + 4 + 4, UAdd(UMul(4, BitmapsGlyphCount), 16))

\* C22: the bitmap of the glyph with index i starts at bitmaps_table_offset
\* + 4 * (6 + glyph_count) + v, v the big-endian u32 at bitmaps_table_offset
\* + 8 + 4 * i: the decoder holds that base and that v, unpacks the glyph's
\* first pixel from the top bit of that byte, and the position is not before
\* the end of the format word, the count, the offset array and the four
\* size words.
C22_BitmapByteOffset ==
    pc = "decoded" =>
        /\ metadata.first_bitmap_offset =
              UAdd(BitmapsTableOffset, UMul(4, UAdd(6, BitmapsGlyphCount)))
        /\ \A cp \in DOMAIN glyphs :
               LET i == indices[cp]
                   g == glyphs[cp]
               IN  /\ bitmap_offsets[cp] = U32At(BitmapsTableOffset + 8 + 4 * i)
                   /\ FirstBitmapByte(i) >= AfterSizeWords
                   /\ (g.bounding_box.size.x > 0 /\ g.bounding_box.size.y > 0) =>
                          g.bitmap[1] = IF BitSet(Byte(FirstBitmapByte(i)), 7) THEN 1 ELSE 0

\* a returned font with a glyph of index above 0 whose offset entry is not 0
\* and whose first pixel is on, and a glyph whose first pixel is off
C22_Witness ==
    /\ pc = "decoded"
    /\ \E cp \in DOMAIN glyphs :
           /\ indices[cp] > 0
           /\ bitmap_offsets[cp] > 0
           /\ Len(glyphs[cp].bitmap) > 0
           /\ glyphs[cp].bitmap[1] = 1
    /\ \E cp \in DOMAIN glyphs :
           Len(glyphs[cp].bitmap) > 0 /\ glyphs[cp].bitmap[1] = 0

\* read_tables has returned and read_accelerators has run
AfterReadAccelerators == pos >= 8 /\ pc # "read_accelerators"

\* the accelerators held are the ones stored in the table of the given type
DecodedFrom(type) ==
    LET off == tables[type].offset
    IN  /\ accelerators.font_ascent = BigEndian_read_i32(off + 12)
        /\ accelerators.font_descent = BigEndian_read_i32(off + 16)
        /\ accelerators.minbounds = read_uncompressed_metrics(off + 24)
        /\ accelerators.maxbounds = read_uncompressed_metrics(off + 36)

\* C23: read_accelerators decodes the BDF-accelerators table (type 256)
\* whenever the directory has one, a plain accelerators table (type 2) being
\* present or not; it decodes the plain table only when there is no
\* BDF-accelerators table; with neither it fails for the missing table.
C23_AcceleratorTableSelection ==
    AfterReadAccelerators =>
        IF PCF_BDF_ACCELERATORS \in DOMAIN tables
        THEN /\ accelerators = DefaultAccelerators \/ DecodedFrom(PCF_BDF_ACCELERATORS)
             /\ pc # "panic" => DecodedFrom(PCF_BDF_ACCELERATORS)
        ELSE IF PCF_ACCELERATORS \in DOMAIN tables
        THEN /\ accelerators = DefaultAccelerators \/ DecodedFrom(PCF_ACCELERATORS)
             /\ pc # "panic" => DecodedFrom(PCF_ACCELERATORS)
        ELSE /\ pc = "panic"
             /\ err = "missing_table"
             /\ accelerators = DefaultAccelerators

\* a directory with both tables, of different contents, after
\* read_accelerators returned the BDF one
C23_Witness ==
    /\ AfterReadAccelerators
    /\ pc # "panic"
    /\ PCF_BDF_ACCELERATORS \in DOMAIN tables
    /\ PCF_ACCELERATORS \in DOMAIN tables
    /\ DecodedFrom(PCF_BDF_ACCELERATORS)
    /\ ~DecodedFrom(PCF_ACCELERATORS)

\* the big-endian signed 16-bit number at position p of the buffer
I16At(p) == IF U16At(p) >= 32768 THEN U16At(p) - 65536 ELSE U16At(p)

\* the 12-byte uncompressed metrics record at position p
MetricsRecordAt(p) ==
    [left_side_bearing    |-> I16At(p),
     right_side_bearing   |-> I16At(p + 2),
     character_width      |-> I16At(p + 4),
     character_ascent     |-> I16At(p + 6),
     character_descent    |-> I16At(p + 8),
     character_attributes |-> U16At(p + 10)]

\* where the accelerator table that was decoded starts
AcceleratorsOffset ==
    IF PCF_BDF_ACCELERATORS \in DOMAIN tables THEN tables[PCF_BDF_ACCELERATORS].offset
    ELSE tables[PCF_ACCELERATORS].offset

\* bit 8 (0x100) of the little-endian format word of that table
InkBoundsBit == (LittleEndian_read_i32(AcceleratorsOffset) \div 256) % 2 = 1

\* read_accelerators has returned
AcceleratorsRead ==
    /\ AfterReadAccelerators
    /\ pc # "panic" \/ accelerators # DefaultAccelerators

\* C24: with the ink-bounds bit (0x100) of the accelerator format word clear,
\* ink_minbounds = minbounds and ink_maxbounds = maxbounds; with it set they
\* are the two 12-byte records that directly follow maxbounds, at table
\* offset + 48 and + 60 (minbounds at + 24, maxbounds at + 36: every record
\* moves the cursor on by 12).
C24_InkBoundsAliasing ==
    AcceleratorsRead =>
        /\ accelerators.minbounds = MetricsRecordAt(AcceleratorsOffset + 24)
        /\ accelerators.maxbounds = MetricsRecordAt(AcceleratorsOffset + 36)
        /\ IF InkBoundsBit
           THEN /\ accelerators.ink_minbounds = MetricsRecordAt(AcceleratorsOffset + 48)
                /\ accelerators.ink_maxbounds = MetricsRecordAt(AcceleratorsOffset + 60)
           ELSE /\ accelerators.ink_minbounds = accelerators.minbounds
                /\ accelerators.ink_maxbounds = accelerators.maxbounds

\* accelerators read from a table without the ink-bounds bit whose bytes
\* after maxbounds are not a copy of the logical bounds
C24_Witness ==
    /\ AcceleratorsRead
    /\ ~InkBoundsBit
    /\ accelerators.ink_minbounds = accelerators.minbounds
    /\ accelerators.ink_maxbounds = accelerators.maxbounds
    /\ MetricsRecordAt(AcceleratorsOffset + 48) # accelerators.minbounds
    /\ MetricsRecordAt(AcceleratorsOffset + 60) # accelerators.maxbounds
    /\ accelerators.minbounds.left_side_bearing < 0

\* pixel (x, y) of the glyph of code point cp in the font file: bit 7 - x%8
\* of byte x/8 of row y of the glyph's bitmap data
SourcePixel(cp, x, y) ==
    LET w == glyphs[cp].bounding_box.size.x
    IN  BitSet(Byte(FirstBitmapByte(indices[cp]) + 4 * CeilDiv(w, 32) * y + (x \div 8)),
               7 - (x % 8))

\* C25: every glyph of the decoded glyph table has a bitmap of exactly
\* size.x * size.y entries, each 0 or 1, stored row by row: entry
\* y * width + x is pixel (x, y).
C25_BitmapShape ==
    pc = "decoded" =>
        \A cp \in DOMAIN glyphs :
            LET g == glyphs[cp]
                w == g.bounding_box.size.x
                h == g.bounding_box.size.y
            IN  /\ Len(g.bitmap) = w * h
                /\ \A i \in 1 .. Len(g.bitmap) : g.bitmap[i] \in {0, 1}
                /\ \A y \in 0 .. (h - 1), x \in 0 .. (w - 1) :
                       g.bitmap[y * w + x + 1] = 1 <=> SourcePixel(cp, x, y)

\* a decoded table holding a glyph of several rows whose rows differ and
\* whose bitmap has both values, and a glyph without any pixel
C25_Witness ==
    /\ pc = "decoded"
    /\ \E cp \in DOMAIN glyphs :
           LET g == glyphs[cp]
               w == g.bounding_box.size.x
               h == g.bounding_box.size.y
           IN  /\ w > 1 /\ h > 1 /\ w # h
               /\ \E x \in 0 .. (w - 1) : g.bitmap[x + 1] # g.bitmap[w + x + 1]
               /\ \E i \in 1 .. (w * h) : g.bitmap[i] = 0
               /\ \E i \in 1 .. (w * h) : g.bitmap[i] = 1
    /\ \E cp \in DOMAIN glyphs : glyphs[cp].bitmap = << >>

\* width * height of the k-th emitted glyph, as the emitted record states it
EmittedBits(k) ==
    font.glyphs[k].bounding_box.size.width * font.glyphs[k].bounding_box.size.height

\* the sum of width * height of the first n emitted glyphs
RECURSIVE BitsBefore(_)
BitsBefore(n) == IF n = 0 THEN 0 ELSE BitsBefore(n - 1) + EmittedBits(n)

\* C26: whatever the order in which include_pcf iterates the decoded glyph
\* table, the k-th emitted glyph has start_index equal to the sum of
\* width * height of the glyphs emitted before it; the bit ranges
\* [start_index, start_index + width * height) are pairwise disjoint and
\* cover the packed stream without gaps.
C26_ContiguousPacking ==
    pc = "included" =>
        LET n == Len(font.glyphs)
        IN  /\ \A k \in 1 .. n : font.glyphs[k].start_index = BitsBefore(k - 1)
            /\ \A i \in 1 .. n, j \in 1 .. n :
                   i < j => font.glyphs[i].start_index + EmittedBits(i)
                               <= font.glyphs[j].start_index
            /\ \A k \in 1 .. (n - 1) :
                   font.glyphs[k + 1].start_index
                       = font.glyphs[k].start_index + EmittedBits(k)
            /\ Len(font.data) = CeilDiv(BitsBefore(n), 8)

\* three glyphs or more of different sizes, emitted in an order that is not
\* the order of their characters, the third starting inside a byte
C26_Witness ==
    /\ pc = "included"
    /\ Len(font.glyphs) >= 3
    /\ font.glyphs[1].character > font.glyphs[2].character
    /\ EmittedBits(1) # EmittedBits(2)
    /\ EmittedBits(1) > 0 /\ EmittedBits(2) > 0
    /\ font.glyphs[3].start_index = EmittedBits(1) + EmittedBits(2)
    /\ font.glyphs[3].start_index % 8 # 0

\* C27: Glyph::pixel(x, y) of a decoded glyph returns true iff the glyph's
\* bitmap entry at y * width + x is non-zero, for every 0 <= x < width and
\* 0 <= y < height; for an off pixel it returns false.
C27_PixelReadsBitmap ==
    \A i \in 1 .. Len(calls) :
        LET g == glyphs[calls[i].code_point]
        IN  calls[i].result
              <=> g.bitmap[calls[i].y * g.bounding_box.size.x + calls[i].x + 1] # 0

\* the code points of all load_glyphs calls made so far
Requested(reqs) == UNION {{reqs[i][j] : j \in 1 .. Len(reqs[i])} : i \in 1 .. Len(reqs)}

\* one step of the on-demand decoder, seen from the glyph table
CacheStep ==
    /\ \A c \in DOMAIN glyphs : c \in DOMAIN glyphs' /\ glyphs'[c] = glyphs[c]
    /\ requests' # requests =>
           LET code_points == requests'[Len(requests')]
           IN  (\A i \in 1 .. Len(code_points) : code_points[i] \in DOMAIN glyphs) =>
                   /\ pcf_load_glyphs_steps(code_points) = << >>
                   /\ glyphs' = glyphs
                   /\ hi' = hi
                   /\ pc' = "pcf_ready"
    /\ DOMAIN glyphs' \subseteq Requested(requests')

\* C28: in the on-demand decoder (pcf.rs load_glyphs), whatever the sequence
\* of calls, a glyph stored for a code point is never replaced or changed by
\* a later call; a call whose code points are all loaded already reads and
\* checks nothing and leaves the glyph table as it is; the table's keys are
\* always among the code points requested so far.
C28_GlyphCache == [][CacheStep]_vars

\* a second call that names a loaded code point (twice) and a new one, after
\* which both are in the table
C28_Witness ==
    /\ pc = "pcf_ready"
    /\ Len(requests) = 2
    /\ requests[1] = <<65>>
    /\ requests[2] = <<66, 65, 65>>
    /\ DOMAIN glyphs = {65, 66}
    /\ \E i \in 1 .. Len(glyphs[65].bitmap) : glyphs[65].bitmap[i] = 1

\* 32-bit code points that share their low 16 bits with a code point of the
\* sample fonts, or with none: above 0xFFFF, negative, and the extremes
AliasedCodePoints ==
    {65 + 65536, 65 - 65536, 66 + 3 * 65536, 321 + 65536, 321 - 2 * 65536,
     55296 + SPACE + 65536, 67 - 65536, 0 - 1, I32_MIN + 65, I32_MIN, USat,
     USat - 65535 + 66}

\* c & 0xFFFF
Low16(c) == c % 65536

\* C29: in the on-demand decoder, load_indices gives a 32-bit code point c
\* what it gives c & 0xFFFF, the same index or the same absence, for c above
\* 0xFFFF and for negative c; the glyph loaded for c is then the one loaded
\* for c & 0xFFFF, but for its code point and character.
C29_CodePointAliasing ==
    pc = "pcf_ready" =>
        /\ \A c \in AliasedCodePoints \cup Requested(requests) :
               /\ pcf_load_index(c) = pcf_load_index(Low16(c))
               /\ pcf_load_index_steps(c) = pcf_load_index_steps(Low16(c))
        /\ \A c \in DOMAIN glyphs :
               Low16(c) \in Requested(requests) =>
                   /\ Low16(c) \in DOMAIN glyphs
                   /\ glyphs[c] = [glyphs[Low16(c)] EXCEPT !.code_point = c,
                                                            !.encoding = glyphs[c].encoding]

\* code point 65 and a negative alias of it were both requested and loaded,
\* with the same bitmap, and an alias above 0xFFFF resolves as 65 does
C29_Witness ==
    /\ pc = "pcf_ready"
    /\ 65 \in DOMAIN glyphs
    /\ (65 - 65536) \in DOMAIN glyphs
    /\ glyphs[65 - 65536].bitmap = glyphs[65].bitmap
    /\ glyphs[65].bitmap # << >>
    /\ pcf_load_index(65 + 65536) # None
    /\ pcf_load_index(65 + 65536) = pcf_load_index(65)
    /\ pcf_load_index(0 - 1) = None

\* the position a call of draw_string or measure_string gave back
NextPosition(call) ==
    IF call.fn = "draw_string" THEN Unwrap(call.result)
    ELSE Unwrap(call.result).next_position

\* the sum of get_glyph(c).device_width over the first n characters, for
\* device widths below 2^31
RECURSIVE TextAdvance(_, _)
TextAdvance(text, n) ==
    IF n = 0 THEN 0 ELSE TextAdvance(text, n - 1) + get_glyph(font, text[n]).device_width

\* C30: on a font with a glyph or more and a valid replacement index,
\* draw_string returns, for every text and start position, the start
\* position with x advanced by the sum of get_glyph(c).device_width over the
\* text's characters and y unchanged; measure_string's next_position is the
\* same point for the same text and position; for the empty text both are
\* the start position.  (A device width of 2^31 or more, held as a negative
\* number, puts the sum above 2^31 - 1: x then has to grow by that much.)
C30_AdvanceConsistency ==
    /\ \A i \in 1 .. Len(calls) :
           LET text     == calls[i].text
               position == calls[i].position
           IN  /\ calls[i].result # None
               /\ NextPosition(calls[i]).y = position.y
               /\ IF \A n \in 1 .. Len(text) : get_glyph(font, text[n]).device_width >= 0
                  THEN /\ AddFitsI32(position.x, TextAdvance(text, Len(text)))
                       /\ NextPosition(calls[i]).x
                              = position.x + TextAdvance(text, Len(text))
                  ELSE /\ position.x < 0
                       /\ NextPosition(calls[i]).x >= position.x + USat
               /\ text = << >> => NextPosition(calls[i]) = position
    /\ \A i \in 1 .. Len(calls), j \in 1 .. Len(calls) :
           (calls[i].text = calls[j].text /\ calls[i].position = calls[j].position)
               => (calls[i].result = None) = (calls[j].result = None)

====
